---- MODULE Spec2Model ----
(***************************************************************************)
(* A model of MONClient's map pipeline: the TMX/TSX model builder          *)
(* (src/src/TmxLoader.cpp), the global-id resolver                         *)
(* (src/src/TileResolver.cpp, TileSet in src/src/SpriteRenderer.h), the    *)
(* depth-ordered render queue (src/src/RenderQueue.h) and the XML parser   *)
(* (src/third_party/tinyxml2/tinyxml2.cpp).                                *)
(*                                                                         *)
(* Conventions.  C++ vectors are sequences; an index the code stores       *)
(* (tilesetIndex) keeps its 0-based value.  unordered_maps are functions   *)
(* whose DOMAIN is the key set.  Pixel values are integers.  The animation *)
(* clock is counted in half milliseconds so that std::floor has something  *)
(* to round away.  An XML attribute is the value of the decimal numeral it  *)
(* holds (Attr(v)), its characters when it holds other text               *)
(* (AttrText(chars)), or NoAttr when the element does not carry it.        *)
(***************************************************************************)
EXTENDS Integers, Sequences, FiniteSets, TLC

VARIABLES
    tilesets,      \* TileResolver::mTilesets, the TilesetRuntime list
    resolveArgs,   \* the (gid, time) of the last Resolve call
    resolveRet,    \* "none" before a call, else what it returned: "true", "false"
    outResolved,   \* the caller's ResolvedTile
    tmxDoc,        \* the document LoadTmxMap last read
    outMap,        \* the caller's LoadedMap
    loadRet,       \* "none" before a call, else what LoadTmxMap returned
    mCmds,         \* RenderQueue::mCmds
    pushCount,     \* Push calls since the last Clear (identifies a command)
    pushedCmds,    \* the arguments of the Push calls since the last Clear, in order
    queueOp,       \* the last RenderQueue operation
    depthEntries,  \* main's depthEntries of the frame drawn last
    xml,           \* XMLDocument::Parse's input, as the pieces it was written from
    xi,            \* Parse's read position i (0-based)
    stack,         \* Parse's stack of open nodes (their names)
    root_,         \* XMLDocument::root_ (a name, or NullNode)
    error_,        \* XMLDocument::error_
    parseRet,      \* "running" inside Parse, else the XMLError it returned
    parseSteps,    \* turns of the main loop the running call of Parse has taken
    events,        \* the tags Parse has consumed so far, in order
    rootChildren,  \* root_->children_ (their names, in document order)
    reported,      \* what the callers of LoadFile were handed by earlier calls
    attrCall,      \* the last XMLElement::IntAttribute call on the parsed tree
    world,         \* the tile layers and tile objects main draws (the loaded map)
    drawn,         \* the renderer.Draw calls of the frame drawn last, in order
    mPlayer,       \* PlayerController::mPlayer: gridPos, isMoving, moveVec
    collisionGrid, \* the collision grid handed to PlayerController::Update
    updateCount    \* Update calls so far

vars == <<tilesets, resolveArgs, resolveRet, outResolved, tmxDoc, outMap, loadRet,
          mCmds, pushCount, pushedCmds, queueOp, depthEntries, xml, xi, stack, root_, error_, parseRet, parseSteps,
          events, rootChildren, reported, attrCall, world, drawn,
          mPlayer, collisionGrid, updateCount>>

resolverVars == <<tilesets, resolveArgs, resolveRet, outResolved>>
loaderVars == <<tmxDoc, outMap, loadRet>>
queueVars == <<mCmds, pushCount, pushedCmds, queueOp, depthEntries>>
frameVars == <<world, drawn>>
playerVars == <<mPlayer, collisionGrid, updateCount>>
xmlVars ==
    <<xml, xi, stack, root_, error_, parseRet, parseSteps, events, rootChildren, reported,
      attrCall>>

-----------------------------------------------------------------------------
(* Bounds of the model. *)

MaxTilesets == 2      \* <tileset> elements per document
MaxGid == 10          \* largest small global id handed to Resolve
MaxTimeMs == 4        \* largest animation time handed to Resolve, in ms

-----------------------------------------------------------------------------
(* Integer conversions. *)

\* A uint32_t is kept as its three high bits (hi, 0..7) and its 29 low bits
\* (lo); an int is an integer of the model.
LowBits == 536870912                \* 2^29
U32(hi, lo) == [hi |-> hi, lo |-> lo]

\* static_cast<uint32_t>(int)
ToUint32(x) == U32((x \div LowBits) % 8, x % LowBits)

\* static_cast<int>(uint32_t): bit 31 is the sign
ToInt32(g) == IF g.hi >= 4 THEN (g.hi - 8) * LowBits + g.lo ELSE g.hi * LowBits + g.lo

\* g & TMX_GID_MASK: the three high bits cleared
TMX_GID_MASK(g) == U32(0, g.lo)

\* the C++ % of two ints (truncating division), b > 0
CRem(a, b) == IF a >= 0 THEN a % b ELSE -((-a) % b)

\* the C++ / of two ints (truncating division), b > 0
CDiv(a, b) == IF a >= 0 THEN a \div b ELSE -((-a) \div b)

Max(a, b) == IF a >= b THEN a ELSE b

\* a bool return value as the variables keep it ("none": no call yet)
Ret(b) == IF b THEN "true" ELSE "false"

\* an attribute the element does not carry, and one it carries
NoAttr == <<>>
Attr(v) == <<v>>
AttrText(chars) == <<"text", chars>>
IsNumeral(attr) == Len(attr) = 1

DigitValue(c) ==
    CASE c = "0" -> 0 [] c = "1" -> 1 [] c = "2" -> 2 [] c = "3" -> 3 [] c = "4" -> 4
      [] c = "5" -> 5 [] c = "6" -> 6 [] c = "7" -> 7 [] c = "8" -> 8 [] c = "9" -> 9
      [] OTHER -> -1

RECURSIVE ReadDigits(_, _, _, _)
\* the digits of s from position i (1-based) on: their value and their count
ReadDigits(s, i, value, count) ==
    IF i <= Len(s) /\ DigitValue(s[i]) >= 0
    THEN ReadDigits(s, i + 1, 10 * value + DigitValue(s[i]), count + 1)
    ELSE [value |-> value, count |-> count]

RECURSIVE SkipBlanks(_, _)
SkipBlanks(s, i) ==
    IF i <= Len(s) /\ s[i] \in {" ", "\t", "\n"} THEN SkipBlanks(s, i + 1) ELSE i

\* what std::atoi, std::strtol and std::strtof read at the start of a text:
\* blanks, a sign, digits; count = 0 when no number starts the text
\* (strtol and strtof then leave `end` at the start)
NumberPrefix(s) ==
    LET i == SkipBlanks(s, 1)
        signed == i <= Len(s) /\ s[i] \in {"+", "-"}
        digits == ReadDigits(s, IF signed THEN i + 1 ELSE i, 0, 0)
    IN [value |-> IF signed /\ s[i] = "-" THEN -digits.value ELSE digits.value,
        count |-> digits.count]

\* std::atoi: the number the text starts with, 0 when it starts with none
Atoi(s) == NumberPrefix(s).value

\* XMLElement::IntAttribute
IntAttribute(attr, defaultValue) ==
    IF attr = NoAttr THEN defaultValue
    ELSE IF IsNumeral(attr) THEN attr[1]
    ELSE Atoi(attr[2])

\* a null Node*
NullNode == <<>>

\* a null `const char* name`
NoName == <<>>

RECURSIVE FirstNamed(_, _)
\* lines 274-278: the first of these children with this name
FirstNamed(children, name) ==
    IF children = <<>> THEN NullNode
    ELSE IF children[1] = name THEN children[1]
    ELSE FirstNamed(Tail(children), name)

\* XMLDocument::FirstChildElement (lines 266-281): the node of the element it
\* returns, NullNode for a null pointer
FirstChildElement(root, children, name) ==
    IF root = NullNode THEN NullNode
    ELSE IF name = NoName \/ root = name THEN root
    ELSE FirstNamed(children, name)

-----------------------------------------------------------------------------
(* Tileset descriptors: the <tileset> element LoadTilesetFromElement reads. *)

NoFlags == [blocking |-> FALSE, water |-> FALSE, slow |-> FALSE]

\* ToLower on the strings the documents of the model use
ToLower(s) ==
    CASE s = "TRUE" -> "true"
      [] s = "True" -> "true"
      [] s = "YES" -> "yes"
      [] s = "Ground" -> "ground"
      [] s = "WALLS" -> "walls"
      [] s = "Overhead" -> "overhead"
      [] s = "Collision" -> "collision"
      [] OTHER -> s

\* props is a function from property names to their text
PropertyIsTrue(props, key) ==
    /\ key \in DOMAIN props
    /\ ToLower(props[key]) \in {"true", "1", "yes"}

NoProps == [k \in {} |-> ""]

\* a <tile> element: its id attribute, its <image> child, its properties and
\* the <frame> children of its <animation>
Tile(id, image, props, frames) ==
    [id |-> id, image |-> image, props |-> props, frames |-> frames]

NoImage == [present |-> FALSE, source |-> FALSE, w |-> 0, h |-> 0]
Image(w, h) == [present |-> TRUE, source |-> TRUE, w |-> w, h |-> h]
ImageNoSource == [present |-> TRUE, source |-> FALSE, w |-> 0, h |-> 0]

Frame(tileid, duration) == [tileid |-> tileid, duration |-> duration]

EmptyTilesetDef ==
    [firstGid |-> 1, tileCount |-> 0, columns |-> 0, tileW |-> 0, tileH |-> 0,
     imageW |-> 0, imageH |-> 0, isImageCollection |-> FALSE,
     tileImages |-> [k \in {} |-> 0], tileFlags |-> [k \in {} |-> 0],
     animations |-> [k \in {} |-> 0]]

\* tile->IntAttribute("id", -1)
TileId(t) == IntAttribute(t.id, -1)

\* the last <tile> with this id that P accepts: unordered_map::operator[]
\* keeps the last assignment
LastTileWith(tiles, id, P(_)) ==
    LET idx == {i \in 1..Len(tiles) : TileId(tiles[i]) = id /\ P(tiles[i])}
    IN tiles[CHOOSE i \in idx : \A j \in idx : j <= i]

HasTileImage(t) == TileId(t) >= 0 /\ t.image.present /\ t.image.source

TileFlagsOf(t) ==
    [blocking |-> PropertyIsTrue(t.props, "blocking"),
     water |-> PropertyIsTrue(t.props, "water"),
     slow |-> PropertyIsTrue(t.props, "slow")]

HasTileFlags(t) ==
    /\ TileId(t) >= 0
    /\ DOMAIN t.props # {}
    /\ (TileFlagsOf(t).blocking \/ TileFlagsOf(t).water \/ TileFlagsOf(t).slow)

\* one <frame>: a duration that is not positive becomes 100
AnimFrame(f, tileId) ==
    LET d == IntAttribute(f.duration, 0)
    IN [tileId |-> IntAttribute(f.tileid, tileId),
        durationMs |-> IF d <= 0 THEN 100 ELSE d]

RECURSIVE SumDurations(_)
SumDurations(frames) ==
    IF frames = <<>> THEN 0
    ELSE frames[1].durationMs + SumDurations(Tail(frames))

TileAnimationOf(t) ==
    LET frames == [i \in 1..Len(t.frames) |-> AnimFrame(t.frames[i], TileId(t))]
    IN [frames |-> frames, totalDurationMs |-> SumDurations(frames)]

HasAnimation(t) ==
    /\ TileId(t) >= 0
    /\ t.frames # <<>>
    /\ TileAnimationOf(t).totalDurationMs > 0

RECURSIVE MaxImageDim(_, _, _)
\* std::max over the tile images, in document order, starting from the attribute
MaxImageDim(tiles, start, dim) ==
    IF tiles = <<>> THEN start
    ELSE MaxImageDim(Tail(tiles),
                     IF HasTileImage(tiles[1])
                     THEN Max(start, IF dim = "w" THEN tiles[1].image.w ELSE tiles[1].image.h)
                     ELSE start,
                     dim)

\* LoadTilesetFromElement: [ok, def]
LoadTilesetFromElement(el, firstGid, fallbackTileW, fallbackTileH) ==
    LET tileW0 == IntAttribute(el.tilewidth, fallbackTileW)
        tileH0 == IntAttribute(el.tileheight, fallbackTileH)
        columns == IntAttribute(el.columns, 0)
        tileCount0 == IntAttribute(el.tilecount, 0)
        tiles == el.tiles
        imageIds == {TileId(tiles[i]) : i \in {j \in 1..Len(tiles) : HasTileImage(tiles[j])}}
        flagIds == {TileId(tiles[i]) : i \in {j \in 1..Len(tiles) : HasTileFlags(tiles[j])}}
        animIds == {TileId(tiles[i]) : i \in {j \in 1..Len(tiles) : HasAnimation(tiles[j])}}
        rows == IF columns > 0 /\ tileW0 > 0 /\ tileH0 > 0 /\ el.image.w > 0 /\ el.image.h > 0
                THEN CDiv(el.image.h, tileH0) ELSE 0
        common ==
            [EmptyTilesetDef EXCEPT
                !.firstGid = firstGid,
                !.columns = columns,
                !.tileFlags = [id \in flagIds |-> TileFlagsOf(LastTileWith(tiles, id, HasTileFlags))],
                !.animations = [id \in animIds |-> TileAnimationOf(LastTileWith(tiles, id, HasAnimation))]]
    IN IF el.image.present
       THEN IF ~el.image.source
            THEN [ok |-> FALSE, def |-> EmptyTilesetDef]
            ELSE [ok |-> TRUE,
                  def |-> [common EXCEPT
                      !.tileW = tileW0, !.tileH = tileH0,
                      !.imageW = el.image.w, !.imageH = el.image.h,
                      !.tileCount = IF tileCount0 <= 0 /\ columns > 0 /\ rows > 0
                                    THEN columns * rows ELSE tileCount0]]
       ELSE IF imageIds = {}
            THEN [ok |-> FALSE, def |-> EmptyTilesetDef]
            ELSE [ok |-> TRUE,
                  def |-> [common EXCEPT
                      !.isImageCollection = TRUE,
                      !.tileImages = [id \in imageIds |->
                          LET t == LastTileWith(tiles, id, HasTileImage)
                          IN [w |-> t.image.w, h |-> t.image.h]],
                      !.tileW = MaxImageDim(tiles, tileW0, "w"),
                      !.tileH = MaxImageDim(tiles, tileH0, "h"),
                      !.tileCount = IF tileCount0 <= 0 THEN Cardinality(imageIds)
                                    ELSE tileCount0]]

\* the file a `source` attribute names, as XMLDocument::LoadFile leaves it:
\* "ok" has a <tileset> root, "nested" a <tileset> below another root,
\* "notileset" none; in each case el holds the <tileset> element's content
TsxFile(source) ==
    [load |-> IF source = "loadfailed" THEN "XML_ERROR_FILE_NOT_FOUND" ELSE "XML_SUCCESS",
     rootName |-> CASE source = "ok" -> <<"tileset">>
                    [] source = "nested" -> <<"tilesets">>
                    [] source = "notileset" -> <<"html">>
                    [] OTHER -> NullNode,
     rootChildren |-> IF source = "nested" THEN <<<<"note">>, <<"tileset">>>> ELSE <<>>]

\* LoadTilesetFromTsx: the external descriptor must load and hold a <tileset>
LoadTilesetFromTsx(el, firstGid, fallbackTileW, fallbackTileH) ==
    LET tsxDoc == TsxFile(el.source)
        tsxTileset ==
            FirstChildElement(tsxDoc.rootName, tsxDoc.rootChildren, <<"tileset">>)
    IN IF tsxDoc.load # "XML_SUCCESS" THEN [ok |-> FALSE, def |-> EmptyTilesetDef]
    ELSE IF tsxTileset = NullNode THEN [ok |-> FALSE, def |-> EmptyTilesetDef]
    ELSE LoadTilesetFromElement(el, firstGid, fallbackTileW, fallbackTileH)

-----------------------------------------------------------------------------
(* TileSet (src/src/SpriteRenderer.h, second half) and the runtime list. *)

\* TileSet::TileSet followed by SetAnimations
TileSet(atlasWidthPx, atlasHeightPx, tileWidthPx, tileHeightPx, animations) ==
    [mAtlasW |-> atlasWidthPx, mAtlasH |-> atlasHeightPx,
     mTileW |-> tileWidthPx, mTileH |-> tileHeightPx,
     mCols |-> IF tileWidthPx > 0 THEN CDiv(atlasWidthPx, tileWidthPx) ELSE 0,
     mRows |-> IF tileHeightPx > 0 THEN CDiv(atlasHeightPx, tileHeightPx) ELSE 0,
     mAnimations |-> animations]

\* static_cast<int>(std::floor(animationTimeMs)), the time given in half ms
FloorMs(timeHalfMs) == timeHalfMs \div 2

RECURSIVE ScanFrames(_, _, _)
RECURSIVE ScanFrames_Inclusive(_, _, _)
\* the frame loop with a frame's span closed at its end
ScanFrames_Inclusive(frames, accumulated, timeInCycle) ==
    IF frames = <<>> THEN <<>>
    ELSE IF timeInCycle <= accumulated + frames[1].durationMs
         THEN <<frames[1].tileId>>
         ELSE ScanFrames_Inclusive(Tail(frames), accumulated + frames[1].durationMs,
                                   timeInCycle)
\* the frame loop of ResolveTileId: the first frame whose accumulated end
\* exceeds timeInCycle, NoFrame when the loop runs out
ScanFrames(frames, accumulated, timeInCycle) ==
    IF frames = <<>> THEN <<>>
    ELSE IF timeInCycle < accumulated + frames[1].durationMs
         THEN <<frames[1].tileId>>
         ELSE ScanFrames(Tail(frames), accumulated + frames[1].durationMs, timeInCycle)

\* ResolveTileId without the reduction of the time into the cycle
ResolveTileId_NoCycle(tileset, tileId, timeHalfMs) ==
    IF tileId \notin DOMAIN tileset.mAnimations THEN tileId
    ELSE LET anim == tileset.mAnimations[tileId]
             hit == ScanFrames(anim.frames, 0, FloorMs(timeHalfMs))
         IN IF hit # <<>> THEN hit[1] ELSE anim.frames[Len(anim.frames)].tileId
\* TileSet::ResolveTileId
ResolveTileId(tileset, tileId, timeHalfMs) ==
    IF tileId \notin DOMAIN tileset.mAnimations THEN tileId
    ELSE LET anim == tileset.mAnimations[tileId]
         IN IF anim.frames = <<>> \/ anim.totalDurationMs <= 0 THEN tileId
            ELSE LET timeInCycle == CRem(FloorMs(timeHalfMs), anim.totalDurationMs)
                     hit == ScanFrames(anim.frames, 0, timeInCycle)
                 IN IF hit # <<>> THEN hit[1]
                    ELSE anim.frames[Len(anim.frames)].tileId

\* a UV corner: numerators over the atlas size, so that no rounding is modelled
UV(un, ud, vn, vd) == [un |-> un, ud |-> ud, vn |-> vn, vd |-> vd]
UVZero == UV(0, 1, 0, 1)
UVOne == UV(1, 1, 1, 1)

\* GetUV with v growing downwards from the authored top row
GetUV_NotInverted(tileset, tileId) ==
    LET col == CRem(tileId, tileset.mCols)
        rowFromTop == CDiv(tileId, tileset.mCols)
    IN [uvMin |-> UV(col * tileset.mTileW, tileset.mAtlasW,
                     rowFromTop * tileset.mTileH, tileset.mAtlasH),
        uvMax |-> UV(col * tileset.mTileW + tileset.mTileW, tileset.mAtlasW,
                     rowFromTop * tileset.mTileH + tileset.mTileH, tileset.mAtlasH)]
\* TileSet::GetUV: [uvMin, uvMax]
GetUV(tileset, tileId) ==
    IF tileset.mCols <= 0 \/ tileset.mRows <= 0 \/ tileset.mAtlasW <= 0 \/ tileset.mAtlasH <= 0
    THEN [uvMin |-> UVZero, uvMax |-> UVOne]
    ELSE LET col == CRem(tileId, tileset.mCols)
             rowFromTop == CDiv(tileId, tileset.mCols)
             x0 == col * tileset.mTileW
             y0_fromTop == rowFromTop * tileset.mTileH
         IN [uvMin |-> UV(x0, tileset.mAtlasW,
                          tileset.mAtlasH - (y0_fromTop + tileset.mTileH), tileset.mAtlasH),
             uvMax |-> UV(x0 + tileset.mTileW, tileset.mAtlasW,
                          tileset.mAtlasH - y0_fromTop, tileset.mAtlasH)]

\* the texture handle main gives tileset k (0-based), and tile image id of it
TextureIdOf(k) == 100 + k
TileTextureIdOf(k, id) == 1000 + 100 * k + id

\* TilesetRuntime::tileTextures: one texture per tile image that loaded
TileTexturesOf(def, k, failedIds) ==
    [id \in (DOMAIN def.tileImages) \ failedIds |-> TileTextureIdOf(k, id)]

\* the TilesetRuntime main builds for tileset k of the loaded map; the atlas
\* has the size its <image> declares
MakeRuntime(def, k, failedIds) ==
    [def |-> def,
     tileset |-> TileSet(def.imageW, def.imageH, def.tileW, def.tileH, def.animations),
     textureId |-> TextureIdOf(k),
     tileTextures |-> TileTexturesOf(def, k, failedIds)]

-----------------------------------------------------------------------------
(* TileResolver (src/src/TileResolver.cpp). *)

\* ResolvedTile{}
EmptyResolvedTile ==
    [textureId |-> 0, uvMin |-> UVZero, uvMax |-> UVOne, sizePx |-> <<0, 0>>,
     isFullTexture |-> FALSE, tilesetIndex |-> -1, localId |-> -1]

RECURSIVE FindBest(_, _, _, _, _)
\* the loop of FindTilesetIndex from position i (1-based) on
FindBest(ts, gid, i, bestIndex, bestFirstGid) ==
    IF i > Len(ts) THEN bestIndex
    ELSE IF ts[i].def.firstGid <= ToInt32(gid) /\ ts[i].def.firstGid > bestFirstGid
         THEN FindBest(ts, gid, i + 1, i - 1, ts[i].def.firstGid)
         ELSE FindBest(ts, gid, i + 1, bestIndex, bestFirstGid)

\* the first tileset whose firstGid does not exceed gid, not the greatest
FindTilesetIndex_First(ts, gid) ==
    LET hits == {i \in 1..Len(ts) : ts[i].def.firstGid >= 0 /\ ts[i].def.firstGid <= ToInt32(gid)}
    IN IF hits = {} THEN -1 ELSE (CHOOSE i \in hits : \A j \in hits : i <= j) - 1
\* TileResolver::FindTilesetIndex: a 0-based index, or -1
FindTilesetIndex(ts, gid) == FindBest(ts, gid, 1, -1, -1)

\* the two range tests of Resolve on the local id (TileResolver.cpp:41-45)
LocalIdInRange_OffByOne(def, localId) ==
    ~(localId < 0) /\ ~(def.tileCount > 0 /\ localId > def.tileCount)
LocalIdInRange(def, localId) ==
    ~(localId < 0) /\ ~(def.tileCount > 0 /\ localId >= def.tileCount)

\* the size Resolve reports for a tile of an image collection
\* (TileResolver.cpp:65-66), and a variant that keeps the shared tile size
TileImageSize_Shared(def, resolvedId) == <<def.tileW, def.tileH>>
TileImageSize(def, resolvedId) ==
    <<def.tileImages[resolvedId].w, def.tileImages[resolvedId].h>>

\* Resolve from the tileset lookup on (TileResolver.cpp:33-81)
ResolveLookup(ts, gid, timeHalfMs, out) ==
    LET tilesetIndex == FindTilesetIndex(ts, gid)
        runtime == ts[tilesetIndex + 1]
        def == runtime.def
        localId == ToInt32(gid) - def.firstGid
        resolvedId == ResolveTileId(runtime.tileset, localId, timeHalfMs)
        out1 == [out EXCEPT !.tilesetIndex = tilesetIndex,
                            !.localId = resolvedId,
                            !.isFullTexture = FALSE,
                            !.sizePx = <<def.tileW, def.tileH>>]
        uv == GetUV(runtime.tileset, resolvedId)
    IN IF tilesetIndex < 0 THEN [ret |-> FALSE, out |-> out]
       ELSE IF ~LocalIdInRange(def, localId) THEN [ret |-> FALSE, out |-> out]
       ELSE IF def.isImageCollection
            THEN IF resolvedId \notin DOMAIN def.tileImages
                 THEN [ret |-> FALSE, out |-> out1]
                 ELSE IF resolvedId \notin DOMAIN runtime.tileTextures
                 THEN [ret |-> FALSE, out |-> out1]
                 ELSE [ret |-> TRUE,
                       out |-> [out1 EXCEPT
                           !.textureId = runtime.tileTextures[resolvedId],
                           !.sizePx = TileImageSize(def, resolvedId),
                           !.uvMin = UVZero, !.uvMax = UVOne,
                           !.isFullTexture = TRUE]]
            ELSE [ret |-> TRUE,
                  out |-> [out1 EXCEPT !.textureId = runtime.textureId,
                                       !.uvMin = uv.uvMin, !.uvMax = uv.uvMax]]

Resolve_NoZeroTest(ts, gid, timeHalfMs, out) == ResolveLookup(ts, gid, timeHalfMs, out)
\* TileResolver::Resolve: [ret, out], out being outResolved after the call
Resolve(ts, gid, timeHalfMs, out) ==
    IF gid = U32(0, 0) THEN [ret |-> FALSE, out |-> out]
    ELSE ResolveLookup(ts, gid, timeHalfMs, out)

-----------------------------------------------------------------------------
(* The <tileset> elements the documents of the model are built from. *)

TilesetElement(firstgid, source, tilecount, columns, image, tiles) ==
    [firstgid |-> firstgid, source |-> source,
     tilewidth |-> Attr(64), tileheight |-> Attr(32),
     tilecount |-> tilecount, columns |-> columns, image |-> image, tiles |-> tiles]

Blocking(text) == [k \in {"blocking"} |-> text]

\* an atlas of 2 x 3 tiles that declares 5 of them
TsA(fg, src) == TilesetElement(Attr(fg), src, Attr(5), Attr(2), Image(128, 96), <<>>)

\* an atlas that declares 3 tiles, tile 0 blocking
TsB(fg, src) ==
    TilesetElement(Attr(fg), src, Attr(3), Attr(2), Image(128, 64),
                   <<Tile(Attr(0), NoImage, Blocking("true"), <<>>)>>)

\* an atlas of 2 x 2 tiles without a tilecount: tile 1 animated over the
\* frames 2 (2 ms) and 3 (1 ms), tile 0 animated into a frame past the atlas,
\* tile 3 blocking and slow, tile 2 only water
TsAnim(fg, src) ==
    TilesetElement(Attr(fg), src, NoAttr, Attr(2), Image(128, 64),
        <<Tile(Attr(1), NoImage, NoProps,
               <<Frame(Attr(2), Attr(2)), Frame(Attr(3), Attr(1))>>),
          Tile(Attr(0), NoImage, NoProps,
               <<Frame(NoAttr, Attr(1)), Frame(Attr(9), NoAttr)>>),
          Tile(Attr(3), NoImage,
               [k \in {"blocking", "slow"} |-> IF k = "blocking" THEN "True" ELSE "1"],
               <<>>),
          Tile(Attr(2), NoImage, [k \in {"water", "blocking"} |->
                                    IF k = "water" THEN "yes" ELSE "false"], <<>>)>>)

\* an atlas whose tile count is neither declared nor derivable
TsUnknown(fg, src) ==
    TilesetElement(Attr(fg), src, NoAttr, NoAttr, Image(128, 64),
                   <<Tile(Attr(7), NoImage, Blocking("1"), <<>>)>>)

\* an image collection with the tile images 0 and 2, tile 0 animated over 0 and 2
TsImg(fg, src) ==
    TilesetElement(Attr(fg), src, NoAttr, NoAttr, NoImage,
        <<Tile(Attr(0), Image(10, 20), NoProps,
               <<Frame(Attr(0), Attr(1)), Frame(Attr(2), Attr(1))>>),
          Tile(Attr(2), Image(30, 40), Blocking("yes"), <<>>),
          Tile(NoAttr, Image(50, 60), NoProps, <<>>),
          Tile(Attr(1), ImageNoSource, NoProps, <<>>)>>)

\* a tileset whose <image> has no source, and an image collection without images
TsNoSource(fg, src) ==
    TilesetElement(Attr(fg), src, Attr(4), Attr(2), ImageNoSource, <<>>)
TsNoImages(fg, src) ==
    TilesetElement(Attr(fg), src, NoAttr, NoAttr, NoImage,
                   <<Tile(Attr(0), NoImage, Blocking("true"), <<>>)>>)

\* an atlas three tiles wide and two high that declares 2 columns and 4 tiles
\* (the tiles keep clear of a strip of the image)
TsWide(fg, src) == TilesetElement(Attr(fg), src, Attr(4), Attr(2), Image(192, 64), <<>>)

\* an atlas that declares 3 tiles and holds a <tile> with id 5, blocking
TsBeyond(fg, src) ==
    TilesetElement(Attr(fg), src, Attr(3), Attr(2), Image(128, 64),
                   <<Tile(Attr(5), NoImage, Blocking("true"), <<>>)>>)

Inline == "inline"
\* outcomes of reading an external .tsx: loaded with a <tileset> root, with
\* a <tileset> below another root, not loaded, loaded without a <tileset>
TsxOutcomes == {"ok", "nested", "loadfailed", "notileset"}

GoodTilesetElements ==
    {TsA(1, Inline), TsA(0, Inline), TsA(-2, Inline), TsB(6, Inline), TsB(1, "ok"),
     TsAnim(6, Inline), TsAnim(1, Inline), TsUnknown(6, Inline),
     TsImg(6, "ok"), TsImg(1, Inline), TsWide(1, Inline)}

BadTilesetElements ==
    {TsNoSource(6, Inline), TsNoImages(6, Inline), TsNoSource(6, "ok"),
     TsA(6, "loadfailed"), TsB(6, "notileset")}

\* sequences of 1..n elements of S with pairwise different firstgid
RECURSIVE DistinctFirstGidLists(_, _)
DistinctFirstGidLists(S, n) ==
    IF n = 0 THEN {<<>>}
    ELSE LET shorter == DistinctFirstGidLists(S, n - 1)
         IN shorter \cup
            {Append(l, e) : <<l, e>> \in
                {p \in shorter \X S :
                    /\ Len(p[1]) = n - 1
                    /\ \A i \in 1..Len(p[1]) : p[1][i].firstgid # p[2].firstgid}}

-----------------------------------------------------------------------------
(* The tileset phase of LoadTmxMap (src/src/TmxLoader.cpp:381-412). *)

RECURSIVE InsertByFirstGid(_, _)
InsertByFirstGid(sorted, def) ==
    IF sorted = <<>> THEN <<def>>
    ELSE IF def.firstGid < sorted[1].firstGid THEN <<def>> \o sorted
    ELSE <<sorted[1]>> \o InsertByFirstGid(Tail(sorted), def)

RECURSIVE SortByFirstGid(_)
\* std::sort by firstGid (the lists of the model hold no equal keys)
SortByFirstGid(defs) ==
    IF defs = <<>> THEN <<>>
    ELSE InsertByFirstGid(SortByFirstGid(SubSeq(defs, 1, Len(defs) - 1)), defs[Len(defs)])

\* one turn of the <tileset> loop
LoadOneTileset(el, tileW, tileH) ==
    LET firstGid == IntAttribute(el.firstgid, 1)
    IN IF el.source # Inline
       THEN LoadTilesetFromTsx(el, firstGid, tileW, tileH)
       ELSE LoadTilesetFromElement(el, firstGid, tileW, tileH)

RECURSIVE LoadTilesetLoop(_, _, _, _)
\* the <tileset> loop: [ok, tilesets], tilesets being what was pushed when the
\* loop ended or returned
LoadTilesetLoop(els, tileW, tileH, pushed) ==
    IF els = <<>> THEN [ok |-> TRUE, tilesets |-> pushed]
    ELSE LET Turn(r) ==
                 IF ~r.ok THEN [ok |-> FALSE, tilesets |-> pushed]
                 ELSE LoadTilesetLoop(Tail(els), tileW, tileH, Append(pushed, r.def))
         IN Turn(LoadOneTileset(els[1], tileW, tileH))

-----------------------------------------------------------------------------
(* LoadTmxMap (src/src/TmxLoader.cpp:349-638) on a parsed document. *)

\* MapData{} and LoadedMap{}
EmptyMapData ==
    [width |-> 0, height |-> 0, tileW |-> 0, tileH |-> 0, tilesets |-> <<>>,
     groundGids |-> <<>>, wallsGids |-> <<>>, overheadGids |-> <<>>,
     collision |-> <<>>, tileFlags |-> <<>>, objects |-> <<>>,
     doors |-> <<>>, spawns |-> <<>>, objectInstances |-> <<>>]
EmptyLoadedMap == [mapData |-> EmptyMapData]

\* the cell after find_first_not_of / find_last_not_of trimmed it ("" for a
\* cell of white space only), on the cell texts the documents use
TrimCell(cell) ==
    CASE cell = " 4" -> "4"
      [] cell = "6\n" -> "6"
      [] cell = " " -> ""
      [] cell = "\n" -> ""
      [] OTHER -> cell

\* std::stoi on the trimmed cell texts the documents use
Stoi(text) ==
    CASE text = "0" -> 0
      [] text = "1" -> 1
      [] text = "2" -> 2
      [] text = "3" -> 3
      [] text = "4" -> 4
      [] text = "5" -> 5
      [] text = "6" -> 6
      [] text = "9" -> 9
      [] text = "13" -> 13
      [] text = "-1" -> -1
      [] text = "536870912" -> 536870912
      [] text = "1073741824" -> 1073741824
      [] text = "1073741828" -> 1073741828
      [] text = "1610612742" -> 1610612742

\* std::stoi throws std::out_of_range: the cell texts the documents use whose
\* value is above INT_MAX = 2147483647
StoiThrows(text) == text \in {"2147483654", "3758096384"}

RECURSIVE ParseCsvTiles(_)
\* ParseCsvTiles: the cells between the commas, blank ones skipped; threw
\* when std::stoi threw on a cell, which ends LoadTmxMap
ParseCsvTiles(csv) ==
    IF csv = <<>> THEN [threw |-> FALSE, tiles |-> <<>>]
    ELSE IF TrimCell(csv[1]) = "" THEN ParseCsvTiles(Tail(csv))
    ELSE IF StoiThrows(TrimCell(csv[1])) THEN [threw |-> TRUE, tiles |-> <<>>]
    ELSE LET rest == ParseCsvTiles(Tail(csv))
         IN [threw |-> rest.threw,
             tiles |-> IF rest.threw THEN <<>>
                       ELSE <<Stoi(TrimCell(csv[1]))>> \o rest.tiles]

\* GetStringProp: the text of the property, "" when there is none
GetStringProp(props, key) == IF key \in DOMAIN props THEN props[key] ELSE ""

\* GetFloatAttribute: std::strtof, the default when no number starts the text
GetFloatAttribute(attr, defaultValue) ==
    IF attr = NoAttr THEN defaultValue
    ELSE IF IsNumeral(attr) THEN attr[1]
    ELSE IF NumberPrefix(attr[2]).count = 0 THEN defaultValue
    ELSE NumberPrefix(attr[2]).value

\* FindTilesetForGid: the definition, or NoTileset
NoTileset == <<>>
RECURSIVE FindBestDef(_, _, _, _)
FindBestDef(defs, gid, best, bestFirstGid) ==
    IF defs = <<>> THEN best
    ELSE IF defs[1].firstGid <= ToInt32(gid) /\ defs[1].firstGid > bestFirstGid
         THEN FindBestDef(Tail(defs), gid, defs[1], defs[1].firstGid)
         ELSE FindBestDef(Tail(defs), gid, best, bestFirstGid)
FindTilesetForGid(defs, gid) == FindBestDef(defs, gid, NoTileset, -1)

\* the local state of LoadTmxMap while it walks the tree
LoadState(mapData) ==
    [mapData |-> mapData,
     collisionTiles |-> [i \in 1..(mapData.width * mapData.height) |-> 0],
     hasCollisionLayer |-> FALSE,
     threw |-> FALSE]

\* the ParseLayer lambda
ParseLayer(layer, st) ==
    LET expectedCount == st.mapData.width * st.mapData.height
        lowerName == ToLower(layer.name)
        parsed == ParseCsvTiles(layer.data.csv)
        rawGids == parsed.tiles
        gids == [i \in 1..expectedCount |-> TMX_GID_MASK(ToUint32(rawGids[i]))]
    IN IF ~layer.data.present THEN st
       ELSE IF layer.data.encoding # "csv" THEN st
       ELSE IF parsed.threw THEN [st EXCEPT !.threw = TRUE]
       ELSE IF Len(rawGids) # expectedCount THEN st
       ELSE IF lowerName = "collision"
            THEN [st EXCEPT !.hasCollisionLayer = TRUE,
                            !.collisionTiles = [i \in 1..expectedCount |->
                                IF gids[i] = U32(0, 0) THEN 0 ELSE 1]]
       ELSE IF lowerName = "ground" THEN [st EXCEPT !.mapData.groundGids = gids]
       ELSE IF lowerName = "walls" THEN [st EXCEPT !.mapData.wallsGids = gids]
       ELSE IF lowerName = "overhead" THEN [st EXCEPT !.mapData.overheadGids = gids]
       ELSE st

\* one turn of the object loop of ParseObjectGroup
ParseObject(object, groupOffsetPx, mapData) ==
    LET x == GetFloatAttribute(object.x, 0) + groupOffsetPx[1]
        y == GetFloatAttribute(object.y, 0) + groupOffsetPx[2]
        w == GetFloatAttribute(object.width, 0)
        h == GetFloatAttribute(object.height, 0)
        rawGid == IF object.gid = NoAttr THEN U32(0, 0) ELSE object.gid[1]
        gid == TMX_GID_MASK(rawGid)
    IN IF gid # U32(0, 0)
       THEN [mapData EXCEPT !.objectInstances = Append(@,
                [tileIndex |-> gid, worldPos |-> <<x, y>>,
                 size |-> IF w > 0 /\ h > 0 THEN <<w, h>>
                          ELSE <<mapData.tileW, mapData.tileH>>])]
       ELSE IF object.type = "Door"
       THEN [mapData EXCEPT !.doors = Append(@,
                [posPx |-> <<x, y>>, sizePx |-> <<w, h>>,
                 targetMap |-> GetStringProp(object.props, "targetMap"),
                 targetSpawn |-> GetStringProp(object.props, "targetSpawn")])]
       ELSE IF object.type = "Spawn"
       THEN [mapData EXCEPT !.spawns = Append(@,
                [name |-> object.name, posPx |-> <<x, y>>])]
       ELSE [mapData EXCEPT !.objects = Append(@,
                [id |-> IntAttribute(object.id, 0), name |-> object.name,
                 type |-> object.type, positionPx |-> <<x, y>>,
                 sizePx |-> <<w, h>>, properties |-> object.props])]

RECURSIVE ParseObjectGroup(_, _, _)
\* the ParseObjectGroup lambda, from the first of `objects` on
ParseObjectGroup(objects, groupOffsetPx, mapData) ==
    IF objects = <<>> THEN mapData
    ELSE ParseObjectGroup(Tail(objects), groupOffsetPx,
                          ParseObject(objects[1], groupOffsetPx, mapData))

\* the offset a <group> hands to its children (TmxLoader.cpp:578), and a variant
\* that hands on only its own
ChildOffset_OwnOnly(parentOffsetPx, offX, offY) == <<offX, offY>>
ChildOffset(parentOffsetPx, offX, offY) ==
    <<parentOffsetPx[1] + offX, parentOffsetPx[2] + offY>>

RECURSIVE ParseNode(_, _, _)
RECURSIVE ParseNodes(_, _, _)
\* the ParseNode lambda
ParseNode(node, parentOffsetPx, st) ==
    LET offX == GetFloatAttribute(node.offsetx, 0)
        offY == GetFloatAttribute(node.offsety, 0)
        nodeOffsetPx == ChildOffset(parentOffsetPx, offX, offY)
    IN IF node.tag = "layer" THEN ParseLayer(node, st)
       ELSE IF node.tag = "objectgroup"
       THEN [st EXCEPT !.mapData = ParseObjectGroup(node.objects, nodeOffsetPx, @)]
       ELSE IF node.tag = "group" THEN ParseNodes(node.children, nodeOffsetPx, st)
       ELSE st

\* a loop over sibling elements, each handed to ParseNode, left when an
\* exception passes through it
ParseNodes(nodes, offsetPx, st) ==
    IF nodes = <<>> \/ st.threw THEN st
    ELSE ParseNodes(Tail(nodes), offsetPx, ParseNode(nodes[1], offsetPx, st))

\* the AccumulateTileFlags lambda on the flags of one cell
AccumulateTileFlags(flags, gidValue, defs) ==
    LET def == FindTilesetForGid(defs, gidValue)
        localId == ToInt32(gidValue) - def.firstGid
    IN IF gidValue = U32(0, 0) THEN flags
       ELSE IF def = NoTileset THEN flags
       ELSE IF localId \notin DOMAIN def.tileFlags THEN flags
       ELSE [blocking |-> flags.blocking \/ def.tileFlags[localId].blocking,
             water |-> flags.water \/ def.tileFlags[localId].water,
             slow |-> flags.slow \/ def.tileFlags[localId].slow]

\* the flags of cell i (1-based) after the three role layers, and a variant
\* that stops after the ground layer
CellFlags_GroundOnly(mapData, i) ==
    LET expectedCount == mapData.width * mapData.height
    IN IF Len(mapData.groundGids) = expectedCount
       THEN AccumulateTileFlags(NoFlags, mapData.groundGids[i], mapData.tilesets)
       ELSE NoFlags
CellFlags(mapData, i) ==
    LET expectedCount == mapData.width * mapData.height
        f1 == IF Len(mapData.groundGids) = expectedCount
              THEN AccumulateTileFlags(NoFlags, mapData.groundGids[i], mapData.tilesets)
              ELSE NoFlags
        f2 == IF Len(mapData.wallsGids) = expectedCount
              THEN AccumulateTileFlags(f1, mapData.wallsGids[i], mapData.tilesets)
              ELSE f1
    IN IF Len(mapData.overheadGids) = expectedCount
       THEN AccumulateTileFlags(f2, mapData.overheadGids[i], mapData.tilesets)
       ELSE f2

\* TmxLoader.cpp:586-624: the final collision grid and the per-cell flags
AggregateCollision(st) ==
    LET mapData == st.mapData
        expectedCount == mapData.width * mapData.height
        base == IF st.hasCollisionLayer THEN st.collisionTiles
                ELSE [i \in 1..expectedCount |-> 0]
        flags == [i \in 1..expectedCount |-> CellFlags(mapData, i)]
    IN [mapData EXCEPT
           !.tileFlags = flags,
           !.collision = [i \in 1..expectedCount |->
                             IF flags[i].blocking THEN 1 ELSE base[i]]]

\* LoadTmxMap: [ret, outMap, threw].  outMap is reset first, whatever it
\* held; threw: an exception left the call, outMap is as far as it was built
LoadTmxMap(doc) ==
    LET Returns(ret, mapData) ==
            [ret |-> ret, outMap |-> [mapData |-> mapData], threw |-> FALSE]
        \* lines 586-637, walked being the state the ParseNode loop left
        AfterWalk(walked) ==
            IF walked.threw
            THEN [ret |-> FALSE, outMap |-> [mapData |-> walked.mapData], threw |-> TRUE]
            ELSE Returns(TRUE, AggregateCollision(walked))
        \* lines 404-584, loaded being what the <tileset> loop left
        AfterTilesets(header, loaded) ==
            IF ~loaded.ok \/ loaded.tilesets = <<>>
            THEN Returns(FALSE, [header EXCEPT !.tilesets = loaded.tilesets])
            ELSE AfterWalk(ParseNodes(doc.nodes, <<0, 0>>,
                     LoadState([header EXCEPT
                                   !.tilesets = SortByFirstGid(loaded.tilesets)])))
        \* lines 381-402, header being outMap.mapData with the map's sizes
        AfterHeader(header) ==
            AfterTilesets(header,
                LoadTilesetLoop(doc.tilesets, header.tileW, header.tileH, <<>>))
    IN IF doc.load # "XML_SUCCESS" THEN Returns(FALSE, EmptyMapData)
       ELSE IF FirstChildElement(doc.rootName, doc.rootChildren, <<"map">>) = NullNode
       THEN Returns(FALSE, EmptyMapData)
       ELSE AfterHeader([EmptyMapData EXCEPT
                            !.width = IntAttribute(doc.width, 0),
                            !.height = IntAttribute(doc.height, 0),
                            !.tileW = IntAttribute(doc.tilewidth, 0),
                            !.tileH = IntAttribute(doc.tileheight, 0)])

-----------------------------------------------------------------------------
(* The documents LoadTmxMap is run on: what XMLDocument::LoadFile left. *)

MaxLayers == 2        \* <layer> elements per document of the layer family
MaxDepth == 2         \* <group> elements around an <objectgroup>

\* an element below <map>
Node(tag, name, offsetx, offsety, data, objects, children) ==
    [tag |-> tag, name |-> name, offsetx |-> offsetx, offsety |-> offsety,
     data |-> data, objects |-> objects, children |-> children]

NoData == [present |-> FALSE, encoding |-> "", csv |-> <<>>]
Csv(csv) == [present |-> TRUE, encoding |-> "csv", csv |-> csv]
Base64(csv) == [present |-> TRUE, encoding |-> "base64", csv |-> csv]

LayerNode(name, data) == Node("layer", name, NoAttr, NoAttr, data, <<>>, <<>>)
ObjectGroupNode(off, objects) == Node("objectgroup", "", off[1], off[2], NoData, objects, <<>>)
GroupNode(off, children) == Node("group", "", off[1], off[2], NoData, <<>>, children)
ImageLayerNode(off) == Node("imagelayer", "", off[1], off[2], NoData, <<>>, <<>>)

\* an <object>
Object(id, name, type, x, y, width, height, gid, props) ==
    [id |-> id, name |-> name, type |-> type, x |-> x, y |-> y,
     width |-> width, height |-> height, gid |-> gid, props |-> props]

\* the document: the outcome of LoadFile, whether FirstChildElement("map")
\* finds an element, and that element
MapDoc(load, rootName, width, height, tilesetEls, nodes) ==
    [load |-> load, rootName |-> rootName, rootChildren |-> <<>>,
     width |-> width, height |-> height,
     tilewidth |-> Attr(64), tileheight |-> Attr(32),
     tilesets |-> tilesetEls, nodes |-> nodes]

RECURSIVE SeqsUpTo(_, _)
\* the sequences of at most n elements of S
SeqsUpTo(S, n) ==
    IF n = 0 THEN {<<>>}
    ELSE LET shorter == SeqsUpTo(S, n - 1)
         IN shorter \cup {Append(l, e) : <<l, e>> \in {p \in shorter \X S : Len(p[1]) = n - 1}}

\* layers of a map of 2 x 1 cells over the tilesets TsB(6) and TsAnim(1):
\* 4 and 6 are blocking, 3 is water, 1610612742 is 6 with two flip bits,
\* 536870912 is a flip bit on the empty cell, 2147483654 is 6 flipped
\* horizontally, 3758096384 is the empty cell with the three flip bits
LayerElements ==
    {LayerNode("ground", Csv(<<"4", "0">>)),
     LayerNode("Ground", Csv(<<"1", " 4">>)),
     LayerNode("ground", Csv(<<"0", " ", "0">>)),
     LayerNode("ground", Csv(<<"-1", "13">>)),
     LayerNode("ground", Base64(<<"4", "4">>)),
     LayerNode("WALLS", Csv(<<"0", "6\n">>)),
     LayerNode("walls", Csv(<<"3", "2">>)),
     LayerNode("walls", NoData),
     LayerNode("Overhead", Csv(<<"1610612742", "0">>)),
     LayerNode("overhead", Csv(<<"0", "0">>)),
     LayerNode("Collision", Csv(<<"0", "0">>)),
     LayerNode("collision", Csv(<<"9", "0">>)),
     LayerNode("collision", Csv(<<"0", "536870912">>)),
     LayerNode("collision", Csv(<<"1">>)),
     LayerNode("ground", Csv(<<"2147483654", "0">>)),
     LayerNode("collision", Csv(<<"0", " ", "3758096384">>)),
     LayerNode("walls", Csv(<<"4", "4", "4">>)),
     LayerNode("walls", Csv(<<"2147483654">>)),
     LayerNode("decor", Csv(<<"4", "4">>))}

LayerTilesets == <<TsB(6, Inline), TsAnim(1, Inline)>>

LayerDocs ==
    {MapDoc("XML_SUCCESS", <<"map">>, Attr(2), Attr(1), LayerTilesets, nodes) :
        nodes \in SeqsUpTo(LayerElements, MaxLayers)}

\* every list of <tileset> elements, under one ground layer; and the
\* documents that did not load or hold no <map>
TilesetDocs ==
    {MapDoc("XML_SUCCESS", <<"map">>, Attr(2), Attr(1), els,
            <<LayerNode("ground", Csv(<<"1", "9">>))>>) :
        els \in DistinctFirstGidLists(GoodTilesetElements \cup BadTilesetElements,
                                      MaxTilesets)}
NoFileDoc == MapDoc("XML_ERROR_FILE_NOT_FOUND", NullNode, NoAttr, NoAttr, <<>>, <<>>)
ParseErrorDoc == MapDoc("XML_ERROR_PARSING", NullNode, NoAttr, NoAttr, <<>>, <<>>)
NoMapDoc == MapDoc("XML_SUCCESS", <<"html">>, NoAttr, NoAttr, <<>>, <<>>)

TargetProps ==
    [k \in {"targetMap", "targetSpawn"} |-> IF k = "targetMap" THEN "cave" ELSE "entry"]

DoorObject == Object(Attr(1), "d", "Door", Attr(0), Attr(0), Attr(64), Attr(32), NoAttr, TargetProps)
SpawnObject == Object(Attr(2), "start", "Spawn", Attr(1), Attr(2), NoAttr, NoAttr, NoAttr, NoProps)
ChestObject == Object(Attr(3), "chest", "", Attr(3), Attr(4), Attr(8), Attr(8), NoAttr, NoProps)
\* tile objects: one with a size, one with flip bits and no size
TreeObject == Object(Attr(4), "tree", "", Attr(7), Attr(40), Attr(64), Attr(96), Attr(U32(0, 4)), NoProps)
RockObject == Object(Attr(5), "", "Door", NoAttr, Attr(-6), NoAttr, NoAttr, Attr(U32(6, 6)), NoProps)
\* doors without properties, and with the target map only
BareDoorObject == Object(Attr(6), "gate", "Door", Attr(2), Attr(2), Attr(8), Attr(8), NoAttr, NoProps)
HalfDoorObject ==
    Object(Attr(7), "", "Door", Attr(4), Attr(4), NoAttr, NoAttr, NoAttr,
           [k \in {"targetMap"} |-> "cave"])

ObjectLists ==
    {<<DoorObject>>, <<SpawnObject>>, <<ChestObject>>, <<TreeObject>>, <<RockObject>>,
     <<DoorObject, SpawnObject>>, <<TreeObject, DoorObject, RockObject>>,
     <<BareDoorObject>>, <<DoorObject, HalfDoorObject>>}

NoOffset == <<NoAttr, NoAttr>>
Offsets == {NoOffset, <<Attr(10), Attr(20)>>, <<Attr(5), Attr(5)>>, <<Attr(-3), NoAttr>>}

RECURSIVE Nested(_, _)
\* an <objectgroup> inside the <group> elements of `offs`, outermost first
Nested(offs, inner) ==
    IF offs = <<>> THEN inner ELSE GroupNode(offs[1], <<Nested(Tail(offs), inner)>>)

ObjectDoc(nodes) ==
    MapDoc("XML_SUCCESS", <<"map">>, Attr(2), Attr(1), <<TsB(6, Inline), TsAnim(1, Inline)>>, nodes)

ObjectDocs ==
    {ObjectDoc(<<Nested(offs, ObjectGroupNode(off, objects))>>) :
        offs \in SeqsUpTo(Offsets, MaxDepth), off \in Offsets, objects \in ObjectLists}

\* a group (10,20) around a group (5,5) around a door at (0,0)
NestedDoorDoc ==
    ObjectDoc(<<Nested(<<<<Attr(10), Attr(20)>>, <<Attr(5), Attr(5)>>>>,
                       ObjectGroupNode(NoOffset, <<DoorObject>>))>>)

\* siblings: an offset must not reach the elements after its own
SiblingsDoc ==
    ObjectDoc(<<ImageLayerNode(<<Attr(9), Attr(9)>>),
                GroupNode(<<Attr(10), Attr(20)>>,
                    <<GroupNode(<<Attr(5), Attr(5)>>,
                                <<ObjectGroupNode(<<Attr(1), NoAttr>>, <<SpawnObject>>),
                                  LayerNode("walls", Csv(<<"0", "6">>))>>),
                      ObjectGroupNode(NoOffset, <<DoorObject, TreeObject>>)>>),
                ObjectGroupNode(<<NoAttr, Attr(2)>>, <<ChestObject>>)>>)

\* a map of 3 x 4 cells: the collision layer all zero, the blocking tile 6 of
\* the ground layer at cell (2,3)
BlockingCellDoc ==
    MapDoc("XML_SUCCESS", <<"map">>, Attr(3), Attr(4), LayerTilesets,
           <<LayerNode("collision", Csv([i \in 1..12 |-> "0"])),
             LayerNode("ground", Csv([i \in 1..12 |-> IF i = 12 THEN "6" ELSE "1"]))>>)

\* a ground layer whose first cell holds global id 6, local id 5 of a
\* tileset that declares 3 tiles and flags its tile 5
FlagBeyondCountDoc ==
    MapDoc("XML_SUCCESS", <<"map">>, Attr(2), Attr(1), <<TsBeyond(1, Inline)>>,
           <<LayerNode("ground", Csv(<<"6", "1">>))>>)

\* the first tileset loads, the <image> of the second has no source
SecondTilesetFailsDoc ==
    MapDoc("XML_SUCCESS", <<"map">>, Attr(2), Attr(1),
           <<TsA(1, Inline), TsNoSource(6, Inline)>>,
           <<LayerNode("ground", Csv(<<"1", "9">>))>>)

\* documents whose <map>, or whose external <tileset>, is not the root
\* element but a child of it; a <map> below the child of the root
MapBelowRootDoc ==
    [BlockingCellDoc EXCEPT !.rootName = <<"world">>,
                            !.rootChildren = <<<<"note">>, <<"map">>>>]
TilesetBelowRootDoc ==
    MapDoc("XML_SUCCESS", <<"map">>, Attr(2), Attr(1), <<TsB(1, "nested")>>,
           <<LayerNode("ground", Csv(<<"1", "0">>))>>)
MapDeeperDoc ==
    [BlockingCellDoc EXCEPT !.rootName = <<"world">>, !.rootChildren = <<<<"maps">>>>]

MapDocs ==
    LayerDocs \cup TilesetDocs \cup ObjectDocs
        \cup {NoFileDoc, ParseErrorDoc, NoMapDoc, NestedDoorDoc, SiblingsDoc, BlockingCellDoc,
              MapBelowRootDoc, TilesetBelowRootDoc, MapDeeperDoc, FlagBeyondCountDoc}

\* the documents a second load into the same LoadedMap reads
ReloadDocs == {NoFileDoc, NoMapDoc, SecondTilesetFailsDoc, BlockingCellDoc, NestedDoorDoc}

-----------------------------------------------------------------------------
(* The resolver under every tileset list a load can produce. *)

\* global ids handed to Resolve: the small ones and one past INT_MAX
ResolveGids == {U32(0, g) : g \in 0..MaxGid} \cup {U32(4, 1)}
ResolveTimes == 0..(2 * MaxTimeMs)

\* tile images whose texture failed to load
FailedTextureSets == {{}, {2}}

LoadedTilesetLists ==
    {SortByFirstGid(LoadTilesetLoop(els, 64, 32, <<>>).tilesets) :
        els \in DistinctFirstGidLists(GoodTilesetElements, MaxTilesets) \ {<<>>}}

InitResolverIdle ==
    /\ resolveArgs = <<U32(0, 0), 0>>
    /\ resolveRet = "none"
    /\ outResolved = EmptyResolvedTile

InitResolver ==
    /\ \E defs \in LoadedTilesetLists, failed \in FailedTextureSets :
          tilesets = [k \in 1..Len(defs) |-> MakeRuntime(defs[k], k - 1, failed)]
    /\ InitResolverIdle

\* a caller (TileMap::Draw, main's object loop) resolves one global id
ResolveCall(gid, timeHalfMs) ==
    /\ resolveRet = "none"
    /\ LET r == Resolve(tilesets, gid, timeHalfMs, outResolved)
       IN /\ resolveRet' = Ret(r.ret)
          /\ outResolved' = r.out
    /\ resolveArgs' = <<gid, timeHalfMs>>
    /\ UNCHANGED tilesets

\* the caller's ResolvedTile goes out of scope; the next call gets a fresh one
ResolvedTileScopeEnd ==
    /\ resolveRet # "none"
    /\ resolveRet' = "none"
    /\ outResolved' = EmptyResolvedTile
    /\ resolveArgs' = <<U32(0, 0), 0>>
    /\ UNCHANGED tilesets

-----------------------------------------------------------------------------
(* Loading maps into one LoadedMap. *)

\* `LoadedMap loadedMap;` (src/src/main.cpp:392)
InitLoader ==
    /\ tmxDoc = <<>>
    /\ outMap = EmptyLoadedMap
    /\ loadRet = "none"

\* LoadTmxMap(path, outMap) on the document at `path`; an exception that
\* leaves it is caught nowhere and ends the program
LoadTmxMapCall(doc) ==
    /\ loadRet # "std::out_of_range"
    /\ \E r \in {LoadTmxMap(doc)} :
          /\ loadRet' = IF r.threw THEN "std::out_of_range" ELSE Ret(r.ret)
          /\ outMap' = r.outMap
    /\ tmxDoc' = doc

-----------------------------------------------------------------------------
(* RenderQueue (src/src/RenderQueue.h) and the depth sort of main's frame. *)

MaxCmds == 4          \* commands in the queue
MaxInstances == 2     \* tile objects of the drawn map
DepthKeys == {1, 2, 3}
FeetYs == {1, 2}
Textures == {7}

RECURSIVE InsertAfterEqual(_, _, _)
\* x goes behind every element that is not greater than it
InsertAfterEqual(sorted, x, key) ==
    IF sorted = <<>> THEN <<x>>
    ELSE IF key[x] < key[sorted[1]] THEN <<x>> \o sorted
    ELSE <<sorted[1]>> \o InsertAfterEqual(Tail(sorted), x, key)

RECURSIVE InsertBeforeEqual(_, _, _)
\* x goes in front of every element that is not smaller than it
InsertBeforeEqual(sorted, x, key) ==
    IF sorted = <<>> THEN <<x>>
    ELSE IF key[x] <= key[sorted[1]] THEN <<x>> \o sorted
    ELSE <<sorted[1]>> \o InsertBeforeEqual(Tail(sorted), x, key)

RECURSIVE StableSort_TiesReversed(_, _)
\* a sort that is not stable
StableSort_TiesReversed(items, key) ==
    IF items = <<>> THEN <<>>
    ELSE InsertBeforeEqual(StableSort_TiesReversed(SubSeq(items, 1, Len(items) - 1), key),
                           items[Len(items)], key)

RECURSIVE StableSort(_, _)
\* std::stable_sort with the comparison key[a] < key[b]
StableSort(items, key) ==
    IF items = <<>> THEN <<>>
    ELSE InsertAfterEqual(StableSort(SubSeq(items, 1, Len(items) - 1), key),
                          items[Len(items)], key)

\* the comparisons' keys: a.depthKey of RenderQueue.h:42, a.feetY of main.cpp:854
DepthKeyOf(cmds) == [cmd \in {cmds[i] : i \in 1..Len(cmds)} |-> cmd.depthKey]
FeetYOf(entries) == [entry \in {entries[i] : i \in 1..Len(entries)} |-> entry.feetY]

InitQueue ==
    /\ mCmds = <<>>
    /\ pushCount = 0
    /\ pushedCmds = <<>>
    /\ queueOp = "new"
    /\ depthEntries = <<>>

\* a Clear that leaves the command pushed first in the queue
Clear_KeepsFirst ==
    /\ mCmds' = IF mCmds = <<>> THEN <<>> ELSE <<mCmds[1]>>
    /\ pushCount' = 0
    /\ pushedCmds' = <<>>
    /\ queueOp' = "clear"
    /\ UNCHANGED depthEntries
\* RenderQueue::Clear
Clear ==
    /\ mCmds' = <<>>
    /\ pushCount' = 0
    /\ pushedCmds' = <<>>
    /\ queueOp' = "clear"
    /\ UNCHANGED depthEntries

\* RenderQueue::Push
Push(texture, depthKey) ==
    /\ Len(mCmds) < MaxCmds
    /\ mCmds' = Append(mCmds, [texture |-> texture, depthKey |-> depthKey,
                               pushed |-> pushCount + 1])
    /\ pushCount' = pushCount + 1
    /\ pushedCmds' = Append(pushedCmds, [texture |-> texture, depthKey |-> depthKey])
    /\ queueOp' = "push"
    /\ UNCHANGED depthEntries

\* RenderQueue::SortByDepthStable
SortByDepthStable ==
    /\ mCmds' = StableSort(mCmds, DepthKeyOf(mCmds))
    /\ queueOp' = "sort"
    /\ UNCHANGED <<pushCount, pushedCmds, depthEntries>>

\* main.cpp:831-855: one entry per object instance, then the player's, then
\* the stable sort by feetY
SortDepthEntries(instanceFeetY, playerFeetY) ==
    /\ LET built == [i \in 1..Len(instanceFeetY) |->
                        [feetY |-> instanceFeetY[i], index |-> i - 1, isPlayer |-> FALSE]]
                      \o <<[feetY |-> playerFeetY, index |-> 0, isPlayer |-> TRUE]>>
       IN depthEntries' = StableSort(built, FeetYOf(built))
    /\ UNCHANGED <<mCmds, pushCount, pushedCmds, queueOp>>

-----------------------------------------------------------------------------
(* The world pass of main's frame (src/src/main.cpp:821-874). *)

MapW == 2             \* cells per row of the drawn map
MapH == 2             \* rows of the drawn map

Min(a, b) == IF a < b THEN a ELSE b
Cells == (0..(MapW - 1)) \X (0..(MapH - 1))
LastCell == <<MapW - 1, MapH - 1>>

\* TileResolver::Resolve on the ids the frames use: 4 is a tile of the
\* loaded tileset, 9 belongs to no tileset
Resolves(gid) == gid = 4

\* the one layer of a TileMap: the global id of every cell
TileLayers ==
    {[c \in Cells |-> 0],
     [c \in Cells |-> 4],
     [c \in Cells |-> IF c = LastCell THEN 4 ELSE 0],
     [c \in Cells |-> IF c = <<0, 0>> THEN 4 ELSE IF c = LastCell THEN 9 ELSE 0]}

\* the tile objects of the loaded map: feetY and tileIndex
InstanceChoices ==
    {[feetY |-> 1, tileIndex |-> 4], [feetY |-> 2, tileIndex |-> 4],
     [feetY |-> 2, tileIndex |-> 9]}

\* main.cpp:564-570: the three TileMaps built from the loaded map, and its
\* tile objects; no frame drawn yet
InitFrame ==
    /\ world \in [groundTiles : TileLayers, wallsTiles : TileLayers,
                   overheadTiles : TileLayers,
                   instances : SeqsUpTo(InstanceChoices, MaxInstances)]
    /\ drawn = <<>>

\* a renderer.Draw call: the pass it belongs to, what it draws, and the
\* feet line of the drawable, counted like feetY: in half tile heights below
\* the feet line of cell (0,0)
DrawCall(pass, kind, cell, index, feetY) ==
    [pass |-> pass, kind |-> kind, cell |-> cell, index |-> index, feetY |-> feetY]

RECURSIVE DrawCells(_, _)
\* TileMap::Draw's loops: the cells diagonal by diagonal, from (sum, x) on
DrawCells(sum, x) ==
    IF sum > (MapW - 1) + (MapH - 1) THEN <<>>
    ELSE IF x > Min(MapW - 1, sum)
         THEN DrawCells(sum + 1, Max(0, sum + 1 - (MapH - 1)))
         ELSE <<<<x, sum - x>>>> \o DrawCells(sum, x + 1)

\* TileMap::Draw without a player (src/src/TileMap.cpp:40-129), the map
\* holding one visible layer
TileMap_Draw(pass, tiles) ==
    LET Drawable(c) == tiles[c] # 0 /\ Resolves(tiles[c])
        cells == SelectSeq(DrawCells(0, 0), Drawable)
    IN [i \in 1..Len(cells) |->
           DrawCall(pass, "tile", cells[i], -1, cells[i][1] + cells[i][2])]

RECURSIVE DrawDepthEntries(_, _)
\* main.cpp:857-872: the player, or the instance unless Resolve fails
DrawDepthEntries(entries, instances) ==
    IF entries = <<>> THEN <<>>
    ELSE LET entry == entries[1]
             rest == DrawDepthEntries(Tail(entries), instances)
         IN IF entry.isPlayer
            THEN <<DrawCall("depth", "player", <<>>, 0, entry.feetY)>> \o rest
            ELSE IF ~Resolves(instances[entry.index + 1].tileIndex) THEN rest
            ELSE <<DrawCall("depth", "instance", <<>>, entry.index, entry.feetY)>> \o rest

\* the order of the four passes of the frame, and a variant that draws the
\* overhead tiles first
FrameOrder_OverheadFirst(ground, walls, depth, overhead) ==
    overhead \o ground \o walls \o depth
FrameOrder(ground, walls, depth, overhead) == ground \o walls \o depth \o overhead

\* main.cpp:821-874: the ground pass, the walls pass, the depth entries
\* built, sorted and drawn, the overhead pass
DrawWorld(groundTiles, wallsTiles, overheadTiles, instances, playerFeetY) ==
    /\ SortDepthEntries([i \in 1..Len(instances) |-> instances[i].feetY], playerFeetY)
    /\ drawn' = FrameOrder(TileMap_Draw("ground", groundTiles),
                           TileMap_Draw("walls", wallsTiles),
                           DrawDepthEntries(depthEntries', instances),
                           TileMap_Draw("overhead", overheadTiles))
    /\ UNCHANGED world

-----------------------------------------------------------------------------
(* XMLDocument::Parse (src/third_party/tinyxml2/tinyxml2.cpp:108-264), one
   action per turn of its main loop. *)

MaxPieces == 4        \* pieces of markup and text per document
MaxSteps == 64        \* turns of the main loop followed in one call of Parse

\* a piece of a document: its characters and the tag it writes, if any
Piece(chars, tags) == [chars |-> chars, tags |-> tags]
OpenTag(name) == <<[kind |-> "open", name |-> name]>>
CloseTag(name) == <<[kind |-> "close", name |-> name]>>
SelfTag(name) == <<[kind |-> "self", name |-> name]>>
NoTag == <<>>

NameA == <<"a">>
NameB == <<"b">>

OpenA == Piece(<<"<", "a", ">">>, OpenTag(NameA))
CloseA == Piece(<<"<", "/", "a", ">">>, CloseTag(NameA))
\* <b k=">">
OpenB == Piece(<<"<", "b", " ", "k", "=", "\"", ">", "\"", ">">>, OpenTag(NameB))
\* </ b >
CloseB == Piece(<<"<", "/", " ", "b", " ", ">">>, CloseTag(NameB))
SelfB == Piece(<<"<", "b", "/", ">">>, SelfTag(NameB))
\* t>
TextT == Piece(<<"t", ">">>, NoTag)
\* <!--<a>-->
CommentA == Piece(<<"<", "!", "-", "-", "<", "a", ">", "-", "-", ">">>, NoTag)
\* <?a?>
InstructionA == Piece(<<"<", "?", "a", "?", ">">>, NoTag)

Pieces == {OpenA, CloseA, OpenB, CloseB, SelfB, TextT, CommentA, InstructionA}

\* documents with markup that is cut off or malformed
BrokenDocs ==
    {<<Piece(<<"<", ">">>, NoTag)>>,
     <<Piece(<<"<", "!", "a", ">">>, NoTag)>>,
     <<OpenA, Piece(<<"<", "a", " ", "k", ">">>, OpenTag(NameA))>>,
     <<Piece(<<"<", "a", " ", "k", "=", "t", ">">>, OpenTag(NameA)), CloseA>>,
     <<Piece(<<"<", "a", " ", "k", "=", "'", "t">>, OpenTag(NameA))>>,
     <<Piece(<<"<", "a">>, OpenTag(NameA))>>,
     <<Piece(<<"<", "a", "/">>, SelfTag(NameA))>>,
     <<OpenA, Piece(<<"<", "/", "a">>, CloseTag(NameA))>>,
     <<OpenA, Piece(<<"<", "/">>, NoTag)>>,
     <<OpenA, Piece(<<"<", "!", "-", "-", "<", "/", "a", ">">>, NoTag)>>,
     <<OpenA, Piece(<<"<", "?", "<", "/", "a", ">">>, NoTag)>>,
     <<Piece(<<" ", "\n">>, NoTag),
       Piece(<<"<", " ", "a", "\t", "k", "_", "1", " ", "=", " ", "'", "t", "'", " ", "/", ">">>,
             SelfTag(NameA)),
       Piece(<<"\n">>, NoTag)>>}

XmlInputs == SeqsUpTo(Pieces, MaxPieces) \cup BrokenDocs

\* the documents of the later LoadFile calls on the same XMLDocument
ReloadXml ==
    {<<OpenA, CloseB>>, <<OpenA>>, <<TextT>>, <<SelfB, SelfB>>, <<OpenA, SelfB, CloseA>>}

RECURSIVE WrittenTags(_)
\* the tags a document was written with, in order
WrittenTags(pieces) ==
    IF pieces = <<>> THEN <<>> ELSE pieces[1].tags \o WrittenTags(Tail(pieces))

RECURSIVE Defect(_, _, _)
\* what is wrong with the structure of a document written with these tags,
\* reading them in order: the first closing tag that does not meet the element
\* opened last, the first element after the root element has been closed, or,
\* at the end, an element left open or no element at all
Defect(tags, open, roots) ==
    IF tags = <<>>
    THEN IF open # <<>> THEN "unclosed tag"
         ELSE IF roots = 0 THEN "no root element" ELSE "none"
    ELSE LET t == tags[1]
         IN IF t.kind = "close"
            THEN IF open = <<>> \/ open[Len(open)] # t.name THEN "mismatched closing tag"
                 ELSE Defect(Tail(tags), SubSeq(open, 1, Len(open) - 1), roots)
            ELSE IF open = <<>> /\ roots > 0 THEN "multiple root elements"
            ELSE Defect(Tail(tags), IF t.kind = "open" THEN Append(open, t.name) ELSE open,
                        IF open = <<>> THEN roots + 1 ELSE roots)

DefectOf(pieces) ==
    IF pieces \in BrokenDocs THEN "malformed markup"
    ELSE Defect(WrittenTags(pieces), <<>>, 0)

RECURSIVE Chars(_)
\* the text of a document
Chars(pieces) == IF pieces = <<>> THEN <<>> ELSE pieces[1].chars \o Chars(Tail(pieces))

\* std::isspace and std::isalnum on the characters the documents use
IsSpace(c) == c \in {" ", "\n", "\t"}
IsAlnum(c) == c \in {"a", "b", "k", "t", "1"}
IsNameChar(c) == IsAlnum(c) \/ c = "_" \/ c = "-"

\* s[i] for the 0-based i of the code
At(s, i) == s[i + 1]

RECURSIVE SkipWhitespace(_, _)
SkipWhitespace(s, i) ==
    IF i < Len(s) /\ IsSpace(At(s, i)) THEN SkipWhitespace(s, i + 1) ELSE i

StartsWith(s, i, token) ==
    \A j \in 0..(Len(token) - 1) : ~(i + j >= Len(s)) /\ At(s, i + j) = At(token, j)

RECURSIVE ReadUntil(_, _, _)
\* the position ReadUntil, and the loop of line 170, stop at
ReadUntil(s, i, end) ==
    IF i < Len(s) /\ At(s, i) # end THEN ReadUntil(s, i + 1, end) ELSE i

RECURSIVE ScanName(_, _)
\* the loops of lines 158 and 194
ScanName(s, i) ==
    IF i < Len(s) /\ IsNameChar(At(s, i)) THEN ScanName(s, i + 1) ELSE i

RECURSIVE ScanFor(_, _, _)
\* the loops of lines 131 and 140: up to the token, or to where it cannot fit
ScanFor(s, i, token) ==
    IF i + Len(token) - 1 < Len(s) /\ ~StartsWith(s, i, token)
    THEN ScanFor(s, i + 1, token) ELSE i

\* the position after a "<?" or "<!--" at i, closed by token; and a variant
\* that stays at i when the token is missing
AfterMarkup_Stays(s, i, opened, token) ==
    LET j == ScanFor(s, i + opened, token)
    IN IF j + Len(token) - 1 < Len(s) THEN j + Len(token) ELSE i
AfterMarkup(s, i, opened, token) ==
    LET j == ScanFor(s, i + opened, token)
    IN IF j + Len(token) - 1 < Len(s) THEN j + Len(token) ELSE Len(s)

\* one turn of the attribute loop (lines 193-219) from position i: [error, i]
AttributeTurn(s, i) ==
    LET afterName == SkipWhitespace(s, ScanName(s, i))
        afterEq == SkipWhitespace(s, afterName + 1)
        afterValue == ReadUntil(s, afterEq + 1, At(s, afterEq))
    IN IF afterName >= Len(s) \/ At(s, afterName) # "="
       THEN [error |-> "parse error: expected '='", i |-> afterName]
       ELSE IF afterEq >= Len(s) \/ (At(s, afterEq) # "\"" /\ At(s, afterEq) # "'")
       THEN [error |-> "parse error: expected quote", i |-> afterEq]
       ELSE [error |-> "",
             i |-> SkipWhitespace(s, IF afterValue < Len(s) THEN afterValue + 1
                                     ELSE afterValue)]

\* the condition of the attribute loop (line 191)
InAttributeLoop(s, i) == i < Len(s) /\ At(s, i) # ">" /\ At(s, i) # "/"

RECURSIVE AttributeLoop(_, _)
\* the attribute loop of lines 191-220: [error, i]
AttributeLoop(s, i) ==
    IF ~InAttributeLoop(s, i) THEN [error |-> "", i |-> i]
    ELSE LET After(turn) == IF turn.error # "" THEN turn ELSE AttributeLoop(s, turn.i)
         IN After(AttributeTurn(s, i))

\* line 175, and without the comparison of the names
ClosingTagMismatch_NameIgnored(open, tagName) == open = <<>>
ClosingTagMismatch(open, tagName) == open = <<>> \/ open[Len(open)] # tagName

\* lines 232-240: an element outside every other element, after the root
\* element has been set, and a variant that lets it replace the root
SecondRoot_Replaces(open, root) == FALSE
SecondRoot(open, root) == open = <<>> /\ root # NullNode

\* no IntAttribute call yet
NoCall == [called |-> FALSE, attr |-> NoAttr, defaultValue |-> 0, ret |-> 0]

\* XMLDocument::Reset, then Parse(xml) up to its loop
InitXml ==
    /\ xml \in XmlInputs
    /\ xi = 0
    /\ stack = <<>>
    /\ root_ = NullNode
    /\ error_ = ""
    /\ parseRet = "running"
    /\ parseSteps = 0
    /\ events = <<>>
    /\ rootChildren = <<>>
    /\ reported = {}
    /\ attrCall = NoCall

InLoop == parseRet = "running" /\ xi < Len(Chars(xml))

\* one more turn of the main loop: the condition of line 113 is evaluated
LoopTurn == parseSteps < MaxSteps /\ parseSteps' = parseSteps + 1

\* `return XML_ERROR_PARSING` with this message
Fail(message, i) ==
    /\ error_' = message
    /\ parseRet' = "XML_ERROR_PARSING"
    /\ xi' = i
    /\ UNCHANGED <<xml, stack, root_, events, rootChildren>>

\* lines 115-126: text up to the next '<'
ParseText ==
    /\ InLoop
    /\ LoopTurn
    /\ At(Chars(xml), xi) # "<"
    /\ xi' = ReadUntil(Chars(xml), xi, "<")
    /\ UNCHANGED <<xml, stack, root_, error_, parseRet, events, rootChildren>>

\* lines 128-135: a processing instruction
ParseInstruction ==
    /\ InLoop
    /\ LoopTurn
    /\ StartsWith(Chars(xml), xi, <<"<", "?">>)
    /\ xi' = AfterMarkup(Chars(xml), xi, 2, <<"?", ">">>)
    /\ UNCHANGED <<xml, stack, root_, error_, parseRet, events, rootChildren>>

\* lines 137-144: a comment
ParseComment ==
    /\ InLoop
    /\ LoopTurn
    /\ ~StartsWith(Chars(xml), xi, <<"<", "?">>)
    /\ StartsWith(Chars(xml), xi, <<"<", "!", "-", "-">>)
    /\ xi' = AfterMarkup(Chars(xml), xi, 4, <<"-", "-", ">">>)
    /\ UNCHANGED <<xml, stack, root_, error_, parseRet, events, rootChildren>>

\* lines 146-248: a tag
ParseTag ==
    /\ InLoop
    /\ LoopTurn
    /\ At(Chars(xml), xi) = "<"
    /\ ~StartsWith(Chars(xml), xi, <<"<", "?">>)
    /\ ~StartsWith(Chars(xml), xi, <<"<", "!", "-", "-">>)
    /\ LET s == Chars(xml)
           closingTag == xi + 1 < Len(s) /\ At(s, xi + 1) = "/"
           nameStart == SkipWhitespace(s, IF closingTag THEN xi + 2 ELSE xi + 1)
           nameEnd == ScanName(s, nameStart)
           tagName == SubSeq(s, nameStart + 1, nameEnd)
           gt == ReadUntil(s, nameEnd, ">")
           afterClose == IF gt < Len(s) THEN gt + 1 ELSE gt
           attrs == AttributeLoop(s, SkipWhitespace(s, nameEnd))
           selfClosing == attrs.i < Len(s) /\ At(s, attrs.i) = "/"
           afterSlash == IF selfClosing THEN attrs.i + 1 ELSE attrs.i
           afterOpen == IF afterSlash < Len(s) /\ At(s, afterSlash) = ">"
                        THEN afterSlash + 1 ELSE afterSlash
       IN IF tagName = <<>> THEN Fail("parse error: empty tag name", nameEnd)
          ELSE IF closingTag
          THEN IF ClosingTagMismatch(stack, tagName)
               THEN Fail("parse error: mismatched closing tag", afterClose)
               ELSE /\ stack' = SubSeq(stack, 1, Len(stack) - 1)
                    /\ xi' = afterClose
                    /\ events' = events \o CloseTag(tagName)
                    /\ UNCHANGED <<xml, root_, error_, parseRet, rootChildren>>
          ELSE IF attrs.error # "" THEN Fail(attrs.error, attrs.i)
          ELSE IF SecondRoot(stack, root_)
          THEN Fail("parse error: multiple root elements", afterOpen)
          ELSE /\ root_' = IF stack = <<>> THEN tagName ELSE root_
               /\ rootChildren' = IF Len(stack) = 1 THEN Append(rootChildren, tagName)
                                  ELSE rootChildren
               /\ stack' = IF selfClosing THEN stack ELSE Append(stack, tagName)
               /\ xi' = afterOpen
               /\ events' = events \o (IF selfClosing THEN SelfTag(tagName)
                                       ELSE OpenTag(tagName))
               /\ UNCHANGED <<xml, error_, parseRet>>

\* lines 251-263: after the loop
ParseEnd ==
    /\ parseRet = "running"
    /\ ~(xi < Len(Chars(xml)))
    /\ LoopTurn
    /\ IF stack # <<>> THEN Fail("parse error: unclosed tag", xi)
       ELSE IF root_ = NullNode THEN Fail("parse error: no root element", xi)
       ELSE /\ parseRet' = "XML_SUCCESS"
            /\ UNCHANGED <<xml, xi, stack, root_, error_, events, rootChildren>>

\* what the caller of the call that has returned holds: the XMLError, ErrorStr()
\* and, for reference, what was wrong with the document it passed
Report ==
    [code |-> parseRet, message |-> error_, defect |-> DefectOf(xml)]

\* XMLDocument::LoadFile (lines 94-106) on a document that has been loaded
\* before: Reset (lines 67-75), the file is read, Parse starts
LoadFile(input) ==
    /\ parseRet # "running"
    /\ reported' = reported \cup {Report}
    /\ root_' = NullNode
    /\ rootChildren' = <<>>
    /\ error_' = ""
    /\ xml' = input
    /\ xi' = 0
    /\ stack' = <<>>
    /\ events' = <<>>
    /\ parseRet' = "running"
    /\ parseSteps' = 0
    /\ attrCall' = NoCall

\* the attributes an element of the tree is asked for, and the defaults
AttrInputs ==
    {NoAttr, Attr(7), AttrText(<<"a", "b", "c">>), AttrText(<<"1", "2", "a">>),
     AttrText(<<>>), AttrText(<<"-", "3">>), AttrText(<<" ", "4">>)}
AttrDefaults == {0, -1, 64}

\* element->IntAttribute(name, defaultValue) on an element of a parsed
\* document, the attribute `name` being attr
IntAttributeCall(attr, defaultValue) ==
    /\ parseRet = "XML_SUCCESS"
    /\ attrCall' = [called |-> TRUE, attr |-> attr, defaultValue |-> defaultValue,
                    ret |-> IntAttribute(attr, defaultValue)]
    /\ UNCHANGED <<xml, xi, stack, root_, error_, parseRet, parseSteps, events,
                   rootChildren, reported>>

-----------------------------------------------------------------------------
(* PlayerController (src/src/PlayerController.cpp).  Grid coordinates are
   counted in hundredths of a tile, so that the hitbox half extent (0.05) and
   the snap distance (0.02) are whole numbers. *)

MaxUpdates == 3       \* Update calls of one run
Unit == 100           \* hundredths per tile
PlayerHalfExtent == 5 \* playerHalfExtents, 0.05 tiles
SnapDistance == 2     \* 0.02 tiles

\* PlayerController::IsBlockedAt
IsBlockedAt(tx, ty, mapW, mapH, grid) ==
    IF tx < 0 \/ tx >= mapW \/ ty < 0 \/ ty >= mapH THEN TRUE
    ELSE grid[ty * mapW + tx + 1] # 0

\* the four corners of the hitbox around pos
Corners(pos) ==
    {<<pos[1] + dx, pos[2] + dy>> :
        dx \in {-PlayerHalfExtent, PlayerHalfExtent},
        dy \in {-PlayerHalfExtent, PlayerHalfExtent}}

\* PlayerController::CollidesAt; \div rounds down, as std::floor does
CollidesAt(pos, mapW, mapH, grid) ==
    \E c \in Corners(pos) : IsBlockedAt(c[1] \div Unit, c[2] \div Unit, mapW, mapH, grid)

Sign(v) == IF v > 0 THEN 1 ELSE IF v < 0 THEN -1 ELSE 0

\* the keys of the four directions that are held down, as screenDir
ScreenDir(keys) ==
    <<(IF "D" \in keys THEN 1 ELSE 0) - (IF "A" \in keys THEN 1 ELSE 0),
      (IF "S" \in keys THEN 1 ELSE 0) - (IF "W" \in keys THEN 1 ELSE 0)>>

\* gridDir = screenDir.x * (1, -1) + screenDir.y * (1, 1); after the
\* normalisation both components have the same size, or one is 0, so the
\* direction is kept as its two signs
GridDir(screenDir) ==
    <<Sign(screenDir[1] + screenDir[2]), Sign(screenDir[2] - screenDir[1])>>

\* std::clamp(v, 0, hi), and a variant that leaves v alone
Clamp_None(v, hi) == v
Clamp(v, hi) == IF v < 0 THEN 0 ELSE IF v > hi THEN hi ELSE v

\* std::round(v - 0.5) + 0.5 in hundredths: halves round away from zero
SnapCenter(v) ==
    LET n == v - Unit \div 2
    IN (IF n >= 0 THEN (2 * n + Unit) \div (2 * Unit)
        ELSE -((2 * (-n) + Unit) \div (2 * Unit))) * Unit + Unit \div 2

\* the SnapAxis lambda
SnapAxis(v) ==
    LET dist == v - SnapCenter(v)
    IN IF dist < SnapDistance /\ -dist < SnapDistance THEN SnapCenter(v) ELSE v

\* the movement part of Update (PlayerController.cpp:215-263): the position
\* after one step; reach is what moveSpeed * deltaTime adds along each
\* axis of moveVec that is not 0
MovedPos(pos, moveVec, reach, mapW, mapH, grid) ==
    LET testX == <<pos[1] + moveVec[1] * reach, pos[2]>>
        afterX == IF moveVec[1] * reach # 0 /\ ~CollidesAt(testX, mapW, mapH, grid)
                  THEN testX ELSE pos
        testY == <<afterX[1], afterX[2] + moveVec[2] * reach>>
        afterY == IF moveVec[2] * reach # 0 /\ ~CollidesAt(testY, mapW, mapH, grid)
                  THEN testY ELSE afterX
        clamped == <<Clamp(afterY[1], (mapW - 1) * Unit), Clamp(afterY[2], (mapH - 1) * Unit)>>
        isMoving == moveVec # <<0, 0>>
    IN IF ~isMoving THEN clamped
       ELSE IF moveVec[1] # 0 /\ moveVec[2] = 0
       THEN <<clamped[1], SnapAxis(clamped[2])>>
       ELSE <<SnapAxis(clamped[1]), clamped[2]>>

DirectionKeys == SUBSET {"W", "S", "A", "D"}
\* what one time step adds along a moved axis: less than the snap distance,
\* less than a tile, a tile
Reaches == {0, 1, 45, Unit}

\* collision grids of the MapW x MapH map: free, the first cell blocked, the
\* cell before the last one blocked
CollisionGrids ==
    {[i \in 1..(MapW * MapH) |-> IF i \in blocked THEN 1 ELSE 0] :
        blocked \in {{}, {1}, {MapW * MapH - 1}}}

\* where the player is put: tile centres and tile corners
StartPositions ==
    {<<x, y>> : x \in {Unit \div 2, Unit, MapW * Unit - Unit \div 2},
                y \in {Unit \div 2, MapH * Unit - Unit \div 2}}

\* the player is put on a position free of collision
InitPlayer ==
    /\ collisionGrid \in CollisionGrids
    /\ \E pos \in StartPositions :
          /\ ~CollidesAt(pos, MapW, MapH, collisionGrid)
          /\ mPlayer = [gridPos |-> pos, isMoving |-> FALSE, moveVec |-> <<0, 0>>]
    /\ updateCount = 0

\* PlayerController::Update under the held keys and a time step; the sprite
\* animation, facing and run toggle it also maintains do not feed the position
Update(keys, reach) ==
    /\ updateCount < MaxUpdates
    /\ \E moveVec \in {GridDir(ScreenDir(keys))} :
          mPlayer' = [gridPos |-> MovedPos(mPlayer.gridPos, moveVec, reach,
                                           MapW, MapH, collisionGrid),
                      isMoving |-> ScreenDir(keys) # <<0, 0>>,
                      moveVec |-> moveVec]
    /\ updateCount' = updateCount + 1
    /\ UNCHANGED collisionGrid

-----------------------------------------------------------------------------
(* Specifications. *)

InitLoaderIdle == tmxDoc = <<>> /\ outMap = <<>> /\ loadRet = "none"
InitQueueIdle ==
    /\ mCmds = <<>> /\ pushCount = 0 /\ pushedCmds = <<>>
    /\ queueOp = "new" /\ depthEntries = <<>>
InitFrameIdle == world = <<>> /\ drawn = <<>>
InitPlayerIdle == mPlayer = <<>> /\ collisionGrid = <<>> /\ updateCount = 0
InitXmlIdle ==
    /\ xml = <<>> /\ xi = 0 /\ stack = <<>> /\ root_ = NullNode /\ error_ = ""
    /\ parseRet = "running" /\ parseSteps = 0 /\ events = <<>>
    /\ rootChildren = <<>> /\ reported = {} /\ attrCall = NoCall

NextResolver ==
    \/ \E gid \in ResolveGids, t \in ResolveTimes :
          ResolveCall(gid, t) /\ UNCHANGED <<loaderVars, queueVars, frameVars, xmlVars, playerVars>>
    \/ ResolvedTileScopeEnd /\ UNCHANGED <<loaderVars, queueVars, frameVars, xmlVars, playerVars>>

\* only the resolver is used; the other variables keep their initial values
ResolverStart ==
    InitResolver /\ InitLoaderIdle /\ InitQueueIdle /\ InitXmlIdle /\ InitFrameIdle
        /\ InitPlayerIdle
SpecResolver == ResolverStart /\ [][NextResolver]_vars

NextLoader ==
    \E doc \in (IF loadRet = "none" THEN MapDocs ELSE ReloadDocs) :
        LoadTmxMapCall(doc) /\ UNCHANGED <<resolverVars, queueVars, frameVars, xmlVars, playerVars>>

InitResolverUnused == tilesets = <<>> /\ InitResolverIdle

\* only the loader is used; the other variables keep their initial values
LoaderStart ==
    InitLoader /\ InitResolverUnused /\ InitQueueIdle /\ InitXmlIdle /\ InitFrameIdle
        /\ InitPlayerIdle
SpecLoader == LoaderStart /\ [][NextLoader]_vars

NextQueue ==
    \/ Clear /\ UNCHANGED <<resolverVars, loaderVars, frameVars, xmlVars, playerVars>>
    \/ \E texture \in Textures, depthKey \in DepthKeys :
          Push(texture, depthKey) /\ UNCHANGED <<resolverVars, loaderVars, frameVars, xmlVars, playerVars>>
    \/ SortByDepthStable /\ UNCHANGED <<resolverVars, loaderVars, frameVars, xmlVars, playerVars>>
    \/ \E instanceFeetY \in SeqsUpTo(FeetYs, MaxInstances), playerFeetY \in FeetYs :
          SortDepthEntries(instanceFeetY, playerFeetY)
             /\ UNCHANGED <<resolverVars, loaderVars, frameVars, xmlVars, playerVars>>

\* only the queue is used; the other variables keep their initial values
QueueStart ==
    InitQueue /\ InitResolverUnused /\ InitLoaderIdle /\ InitXmlIdle /\ InitFrameIdle
        /\ InitPlayerIdle
SpecQueue == QueueStart /\ [][NextQueue]_vars

NextFrame ==
    \E playerFeetY \in FeetYs :
        /\ DrawWorld(world.groundTiles, world.wallsTiles, world.overheadTiles,
                     world.instances, playerFeetY)
        /\ UNCHANGED <<resolverVars, loaderVars, xmlVars, playerVars>>

\* frames of the main loop; the RenderQueue is not used
FrameStart ==
    InitFrame /\ InitQueue /\ InitResolverUnused /\ InitLoaderIdle /\ InitXmlIdle
        /\ InitPlayerIdle
SpecFrame == FrameStart /\ [][NextFrame]_vars

NextXml ==
    \/ ParseText /\ UNCHANGED <<resolverVars, loaderVars, queueVars, frameVars, playerVars, reported, attrCall>>
    \/ ParseInstruction /\ UNCHANGED <<resolverVars, loaderVars, queueVars, frameVars, playerVars, reported, attrCall>>
    \/ ParseComment /\ UNCHANGED <<resolverVars, loaderVars, queueVars, frameVars, playerVars, reported, attrCall>>
    \/ ParseTag /\ UNCHANGED <<resolverVars, loaderVars, queueVars, frameVars, playerVars, reported, attrCall>>
    \/ ParseEnd /\ UNCHANGED <<resolverVars, loaderVars, queueVars, frameVars, playerVars, reported, attrCall>>
    \/ \E input \in ReloadXml :
          LoadFile(input) /\ UNCHANGED <<resolverVars, loaderVars, queueVars, frameVars, playerVars>>
    \/ \E attr \in AttrInputs, defaultValue \in AttrDefaults :
          /\ IntAttributeCall(attr, defaultValue)
          /\ UNCHANGED <<resolverVars, loaderVars, queueVars, frameVars, playerVars>>

\* only the parser is used; the other variables keep their initial values
XmlStart ==
    InitXml /\ InitResolverUnused /\ InitLoaderIdle /\ InitQueueIdle /\ InitFrameIdle
        /\ InitPlayerIdle
SpecXml == XmlStart /\ [][NextXml]_vars

NextPlayer ==
    \E keys \in DirectionKeys, reach \in Reaches :
        Update(keys, reach)
           /\ UNCHANGED <<resolverVars, loaderVars, queueVars, frameVars, xmlVars>>

\* only the player controller is used; the other variables keep their
\* initial values
PlayerStart ==
    InitPlayer /\ InitResolverUnused /\ InitLoaderIdle /\ InitQueueIdle /\ InitXmlIdle
        /\ InitFrameIdle
SpecPlayer == PlayerStart /\ [][NextPlayer]_vars

\* Parse evaluates the condition of its main loop once more: every turn of
\* the loop, and the code after it, starts with this
ParseStep == parseRet = "running" /\ LoopTurn

\* Parse is sequential code: once called, it takes its next turn
SpecXmlFair == XmlStart /\ [][NextXml]_vars /\ WF_parseSteps(ParseStep)

-----------------------------------------------------------------------------
(* Properties of the resolver, checked under SpecResolver. *)

Called == resolveRet # "none"
ArgGid == resolveArgs[1]
ArgTime == resolveArgs[2]

\* the range [firstId, firstId + tileCount) of a tileset, read off its definition
InRangeOf(def, gid) ==
    gid.hi = 0 /\ def.firstGid <= gid.lo /\ gid.lo < def.firstGid + def.tileCount

\* the list is sorted by firstId and no two ranges share an id (a tileset of
\* unknown tile count reaches to the end of the id space)
SortedNonOverlapping(ts) ==
    \A i, j \in 1..Len(ts) :
        i < j => /\ ts[i].def.firstGid < ts[j].def.firstGid
                 /\ ts[i].def.tileCount > 0
                 /\ ts[i].def.firstGid + ts[i].def.tileCount <= ts[j].def.firstGid

\* the tilesets whose range holds gid
RangeOwners(ts, gid) == {k \in 1..Len(ts) : InRangeOf(ts[k].def, gid)}

PickedIndex == FindTilesetIndex(tilesets, ArgGid) + 1
PickedLocalId == ToInt32(ArgGid) - tilesets[PickedIndex].def.firstGid

\* the call reached the animation step (TileResolver.cpp:47)
ReachedAnimation ==
    /\ Called /\ ArgGid # U32(0, 0) /\ PickedIndex >= 1
    /\ PickedLocalId >= 0
    /\ tilesets[PickedIndex].def.tileCount > 0 =>
          PickedLocalId < tilesets[PickedIndex].def.tileCount

\* the call reached the animation step in a tileset of image-collection mode
ReachedCollection ==
    ReachedAnimation /\ tilesets[PickedIndex].def.isImageCollection

\* C21: for a tileset in image-collection mode, a successful Resolve returns the
\* texture registered for the resolved local id, flags the result as full
\* texture with UV rectangle [0,0] to [1,1], and reports that tile image's own
\* declared pixel size instead of the shared tile size; when the resolved local
\* id has no image or texture entry the result is no result.
C21_ImageCollectionResult ==
    ReachedCollection =>
        LET runtime == tilesets[PickedIndex]
            resolvedId == ResolveTileId(runtime.tileset, PickedLocalId, ArgTime)
            registered == resolvedId \in DOMAIN runtime.def.tileImages
                          /\ resolvedId \in DOMAIN runtime.tileTextures
        IN /\ resolveRet = "true" <=> registered
           /\ resolveRet = "true" =>
                 /\ outResolved.tilesetIndex = PickedIndex - 1
                 /\ outResolved.localId = resolvedId
                 /\ outResolved.textureId = TileTextureIdOf(PickedIndex - 1, resolvedId)
                 /\ outResolved.isFullTexture
                 /\ outResolved.uvMin = UV(0, 1, 0, 1) /\ outResolved.uvMax = UV(1, 1, 1, 1)
                 /\ outResolved.sizePx = <<runtime.def.tileImages[resolvedId].w,
                                           runtime.def.tileImages[resolvedId].h>>

\* an animated tile of an image collection resolved to its second frame, whose
\* image is smaller than the shared tile size
C21_Witness ==
    /\ ReachedCollection /\ resolveRet = "true"
    /\ PickedLocalId = 0 /\ outResolved.localId = 2
    /\ outResolved.sizePx = <<30, 40>>
    /\ tilesets[PickedIndex].def.tileW = 64
    /\ outResolved.isFullTexture

\* the atlas column and row a uniform-grid result addresses, read off its UV
\* rectangle: the left edge over the tile width, the distance of the upper
\* edge from the top of the atlas over the tile height
AddressedCol(out, tileset) == out.uvMin.un \div tileset.mTileW
AddressedRow(out, tileset) == (tileset.mAtlasH - out.uvMax.vn) \div tileset.mTileH

\* the scenario's tileset list: one uniform tileset without animations,
\* firstId 1, 2 columns, tiles of 64 x 32
IsScenarioGrid(ts) ==
    /\ Len(ts) = 1
    /\ ~ts[1].def.isImageCollection
    /\ DOMAIN ts[1].def.animations = {}
    /\ ts[1].def.firstGid = 1 /\ ts[1].def.columns = 2
    /\ ts[1].def.tileW = 64 /\ ts[1].def.tileH = 32

\* C22: in uniform-grid mode a local id L of a tileset with C columns addresses
\* atlas column L mod C and row L div C, row 0 being the topmost authored row;
\* with one tileset (firstId 1, 2 columns, tile 64 x 32), global id 1 resolves
\* to local id 0 at column 0, row 0 and global id 4 to local id 3 at column 1,
\* row 1.
C22_ColumnAndRow ==
    (Called /\ resolveRet = "true") =>
        LET runtime == tilesets[outResolved.tilesetIndex + 1]
            columns == runtime.def.columns
            L == outResolved.localId
        IN /\ (~runtime.def.isImageCollection /\ columns > 0) =>
                 /\ AddressedCol(outResolved, runtime.tileset) = L % columns
                 /\ AddressedRow(outResolved, runtime.tileset) = L \div columns
                 /\ outResolved.uvMin.un = (L % columns) * runtime.def.tileW
                 /\ outResolved.uvMax.vn =
                        runtime.tileset.mAtlasH - (L \div columns) * runtime.def.tileH
           /\ IsScenarioGrid(tilesets) =>
                 /\ ArgGid = U32(0, 1) =>
                       /\ L = 0
                       /\ AddressedCol(outResolved, runtime.tileset) = 0
                       /\ AddressedRow(outResolved, runtime.tileset) = 0
                 /\ ArgGid = U32(0, 4) =>
                       /\ L = 3
                       /\ AddressedCol(outResolved, runtime.tileset) = 1
                       /\ AddressedRow(outResolved, runtime.tileset) = 1

\* the fraction num / den equals a / b, and is below it (positive denominators)
SameFraction(num, den, a, b) == num * b = a * den
BelowFraction(num, den, a, b) == num * b < a * den

\* the tileset has a grid: tiles and atlas of positive size
HasGrid(tileset) ==
    /\ tileset.mTileW > 0 /\ tileset.mTileH > 0
    /\ tileset.mAtlasW >= tileset.mTileW /\ tileset.mAtlasH >= tileset.mTileH

\* C23: the uniform-grid UV rectangle is the tile's pixel rectangle normalized
\* by the atlas size with the vertical axis inverted: for a tile in column c and
\* row r, u spans [c*tileW/atlasW, (c+1)*tileW/atlasW] and v spans
\* [1 - (r+1)*tileH/atlasH, 1 - r*tileH/atlasH], so that row 0 reaches the top
\* edge v = 1, with uvMin below uvMax on both axes.
C23_UvRectangle ==
    (Called /\ resolveRet = "true") =>
        LET tileset == tilesets[outResolved.tilesetIndex + 1].tileset
            c == outResolved.localId % tileset.mCols
            r == outResolved.localId \div tileset.mCols
            W == tileset.mAtlasW
            H == tileset.mAtlasH
            min == outResolved.uvMin
            max == outResolved.uvMax
        IN (~outResolved.isFullTexture /\ HasGrid(tileset)) =>
              /\ SameFraction(min.un, min.ud, c * tileset.mTileW, W)
              /\ SameFraction(max.un, max.ud, (c + 1) * tileset.mTileW, W)
              /\ SameFraction(min.vn, min.vd, H - (r + 1) * tileset.mTileH, H)
              /\ SameFraction(max.vn, max.vd, H - r * tileset.mTileH, H)
              /\ r = 0 => max.vn = max.vd
              /\ BelowFraction(min.un, min.ud, max.un, max.ud)
              /\ BelowFraction(min.vn, min.vd, max.vn, max.vd)

\* the tile in column 1 of row 1 of an atlas of 2 x 3 tiles: v spans
\* [1/3, 2/3], u spans [1/2, 1]
C23_Witness ==
    /\ Called /\ resolveRet = "true" /\ ~outResolved.isFullTexture
    /\ outResolved.localId = 3
    /\ tilesets[outResolved.tilesetIndex + 1].tileset.mCols = 2
    /\ tilesets[outResolved.tilesetIndex + 1].tileset.mRows = 3
    /\ outResolved.uvMin = UV(64, 128, 32, 96)
    /\ outResolved.uvMax = UV(128, 128, 64, 96)

\* d_0 + ... + d_(k-1): the time at which frame k (0-based) of the cycle starts
SpanStart(frames, k) == SumDurations(SubSeq(frames, 1, k))

\* the frames whose span holds the time x
FramesAt(frames, x) ==
    {k \in 0..(Len(frames) - 1) :
        SpanStart(frames, k) <= x /\ x < SpanStart(frames, k + 1)}

\* C24: for an animated local id with frames (id_0,d_0)...(id_n,d_n) and total
\* duration D, ResolveTileId at elapsed time t returns id_k for the unique k
\* with d_0+...+d_(k-1) <= (floor(t) mod D) < d_0+...+d_k, falling back to the
\* last frame when no span matches; for a local id without an animation it
\* returns the local id unchanged for every t.
C24_FrameAtTime ==
    ReachedAnimation =>
        LET animations == tilesets[PickedIndex].def.animations
        IN IF PickedLocalId \notin DOMAIN animations
           THEN outResolved.localId = PickedLocalId
           ELSE LET frames == animations[PickedLocalId].frames
                    D == animations[PickedLocalId].totalDurationMs
                    hits == FramesAt(frames, FloorMs(ArgTime) % D)
                IN /\ Cardinality(hits) <= 1
                   /\ \A k \in hits : outResolved.localId = frames[k + 1].tileId
                   /\ hits = {} => outResolved.localId = frames[Len(frames)].tileId

\* an animated tile past its first cycle, in the span of its second frame
C24_Witness ==
    /\ ReachedAnimation
    /\ PickedLocalId \in DOMAIN tilesets[PickedIndex].def.animations
    /\ LET anim == tilesets[PickedIndex].def.animations[PickedLocalId]
       IN /\ FloorMs(ArgTime) >= anim.totalDurationMs
          /\ FramesAt(anim.frames, FloorMs(ArgTime) % anim.totalDurationMs) = {1}
          /\ anim.frames[2].tileId # anim.frames[1].tileId
          /\ outResolved.localId = anim.frames[2].tileId

\* C25: every successful Resolve on a tileset whose tileCount is known returns a
\* final local id, after animation substitution, that lies in [0, tileCount) of
\* the owning tileset; an animation frame whose frameLocalId is outside that
\* range never yields a resolved tile.
C25_FinalIdInRange ==
    (Called /\ resolveRet = "true") =>
        LET def == tilesets[outResolved.tilesetIndex + 1].def
        IN def.tileCount > 0 =>
              0 <= outResolved.localId /\ outResolved.localId < def.tileCount

\* C27: when Resolve returns false, the caller's ResolvedTile is left exactly as
\* it was before the call, on every failure path: gid 0, no owning tileset,
\* local id out of range, and an image-collection tile without an image or
\* texture entry.
C27_FailureLeavesOutput ==
    [][(resolveRet = "none" /\ resolveRet' = "false") => outResolved' = outResolved]_vars

\* C2: Resolve(0, t) returns no result for every t and every tileset list.
C2_ZeroRejected ==
    (Called /\ ArgGid = U32(0, 0)) => resolveRet = "false"

\* Resolve(0, t) was called on a list with a tileset whose firstId is 0, at a
\* time past zero
C2_Witness ==
    /\ Called /\ ArgGid = U32(0, 0) /\ ArgTime > 0
    /\ \E k \in 1..Len(tilesets) : tilesets[k].def.firstGid = 0
    /\ resolveRet = "false"

\* the tilesets whose firstId does not exceed gid (gid read as unsigned)
NotAbove(ts, gid) == {k \in 1..Len(ts) : gid.hi > 0 \/ ts[k].def.firstGid <= gid.lo}

\* the owning tileset: the one with the greatest firstId not exceeding gid
IsOwner(ts, gid, k) ==
    /\ k \in NotAbove(ts, gid)
    /\ \A j \in NotAbove(ts, gid) : ts[j].def.firstGid <= ts[k].def.firstGid

\* the local index gid - firstId lies outside [0, tileCount)
LocalOutside(def, gid) ==
    gid.hi > 0 \/ gid.lo - def.firstGid < 0 \/ gid.lo - def.firstGid >= def.tileCount

IsScenarioAB(ts) ==
    /\ Len(ts) = 2
    /\ ts[1].def.firstGid = 1 /\ ts[1].def.tileCount = 5
    /\ ts[2].def.firstGid = 6 /\ ts[2].def.tileCount = 3

\* C3: Resolve returns no result for every global id whose local index in its
\* owning tileset is outside [0, tileCount) when tileCount is known; with
\* A (firstId 1, 5 tiles) and B (firstId 6, 3 tiles), Resolve(6) selects B with
\* local id 0, Resolve(5) selects A with local id 4, Resolve(9) has no result.
C3_OutOfRangeRejected ==
    Called =>
        /\ \A k \in 1..Len(tilesets) :
              (/\ IsOwner(tilesets, ArgGid, k)
               /\ tilesets[k].def.tileCount > 0
               /\ LocalOutside(tilesets[k].def, ArgGid)) => resolveRet = "false"
        /\ IsScenarioAB(tilesets) =>
              /\ ArgGid = U32(0, 6) =>
                    /\ resolveRet = "true"
                    /\ outResolved.tilesetIndex = 1 /\ outResolved.localId = 0
              /\ ArgGid = U32(0, 5) =>
                    /\ resolveRet = "true"
                    /\ outResolved.tilesetIndex = 0 /\ outResolved.localId = 4
              /\ ArgGid = U32(0, 9) => resolveRet = "false"

\* Resolve(9) on the lists A, B: one past B's last id
C3_Witness ==
    /\ IsScenarioAB(tilesets)
    /\ ArgGid = U32(0, 9)
    /\ resolveRet = "false"
    /\ outResolved = EmptyResolvedTile

\* the animation of the tile gid names in tileset k, if it has one
AnimatedIn(ts, k, gid) ==
    /\ gid.hi = 0
    /\ (gid.lo - ts[k].def.firstGid) \in DOMAIN ts[k].def.animations
AnimationIn(ts, k, gid) == ts[k].def.animations[gid.lo - ts[k].def.firstGid]

\* C4: for every animated global id g and every time t, Resolve(g, t) and
\* Resolve(g, t + totalDurationMs) yield the same resolved local id.
C4_Periodic ==
    Called =>
        \A k \in 1..Len(tilesets) :
            (IsOwner(tilesets, ArgGid, k) /\ AnimatedIn(tilesets, k, ArgGid)) =>
                LET total == AnimationIn(tilesets, k, ArgGid).totalDurationMs
                    later == Resolve(tilesets, ArgGid, ArgTime + 2 * total,
                                     EmptyResolvedTile)
                IN /\ Ret(later.ret) = resolveRet
                   /\ later.out.localId = outResolved.localId

\* an animated tile resolved in its second cycle, to a frame that is not the first
C4_Witness ==
    /\ resolveRet = "true"
    /\ \E k \in 1..Len(tilesets) :
          /\ IsOwner(tilesets, ArgGid, k)
          /\ AnimatedIn(tilesets, k, ArgGid)
          /\ LET anim == AnimationIn(tilesets, k, ArgGid)
             IN /\ FloorMs(ArgTime) >= anim.totalDurationMs
                /\ ArgTime % 2 = 1
                /\ outResolved.localId # anim.frames[1].tileId
                /\ outResolved.localId = anim.frames[Len(anim.frames)].tileId

-----------------------------------------------------------------------------
(* Properties of the loader, checked under SpecLoader. *)

Loaded == loadRet = "true"
LoadFailed == loadRet = "false"

RECURSIVE LayersOf(_)
\* the <layer> elements of a document in document order, nested ones included
LayersOf(nodes) ==
    IF nodes = <<>> THEN <<>>
    ELSE (IF nodes[1].tag = "layer" THEN <<nodes[1]>>
          ELSE IF nodes[1].tag = "group" THEN LayersOf(nodes[1].children)
          ELSE <<>>) \o LayersOf(Tail(nodes))

\* the cells of csv data that are not blank, trimmed
WrittenCells(csv) ==
    LET trimmed == [i \in 1..Len(csv) |-> TrimCell(csv[i])]
    IN SelectSeq(trimmed, LAMBDA cell : cell # "")

\* a layer the loader keeps: csv data with one cell per map cell
WellFormed(layer, cellCount) ==
    /\ layer.data.present
    /\ layer.data.encoding = "csv"
    /\ Len(WrittenCells(layer.data.csv)) = cellCount

\* the layers of the document that fill the role, in document order
RoleLayers(doc, role) ==
    LET IsRole(l) == /\ WellFormed(l, doc.width[1] * doc.height[1])
                     /\ ToLower(l.name) = role
    IN SelectSeq(LayersOf(doc.nodes), IsRole)

\* the global id of cell i in the layer that fills the role, flip bits
\* stripped; 0 when no layer fills it
CellGid(doc, role, i) ==
    LET ls == RoleLayers(doc, role)
    IN IF ls = <<>> THEN 0 ELSE ParseCsvTiles(ls[Len(ls)].data.csv).tiles[i] % LowBits

\* the tile with global id g is blocking in the tileset that owns it: the one
\* with the greatest first id not above g
BlockingTile(defs, g) ==
    /\ g # 0
    /\ \E k \in 1..Len(defs) :
          /\ defs[k].firstGid <= g
          /\ \A j \in 1..Len(defs) : defs[j].firstGid <= g => defs[j].firstGid <= defs[k].firstGid
          /\ (g - defs[k].firstGid) \in DOMAIN defs[k].tileFlags
          /\ defs[k].tileFlags[g - defs[k].firstGid].blocking

\* C5: after a successful load the collision grid has one 0/1 entry per cell,
\* and the entry of cell i is 1 exactly when the collision layer holds a
\* nonzero id at i or the tile at i of the ground, walls or overhead layer is
\* blocking in its owning tileset; for the map with an all-zero collision
\* layer and one blocking ground tile at (2,3) the grid is 1 exactly at
\* index 3*width+2
C5_CollisionAggregation ==
    Loaded =>
        LET m == outMap.mapData
            n == m.width * m.height
        IN /\ DOMAIN m.collision = 1..n
           /\ \A i \in 1..n :
                 /\ m.collision[i] \in {0, 1}
                 /\ m.collision[i] = 1 <=>
                       \/ CellGid(tmxDoc, "collision", i) # 0
                       \/ \E role \in {"ground", "walls", "overhead"} :
                             BlockingTile(m.tilesets, CellGid(tmxDoc, role, i))
           /\ tmxDoc = BlockingCellDoc =>
                 m.collision = [i \in 1..n |-> IF i - 1 = 3 * m.width + 2 THEN 1 ELSE 0]

\* the scenario map is loaded and the cell (2,3) is the one blocked
C5_Witness ==
    /\ Loaded
    /\ tmxDoc = BlockingCellDoc
    /\ outMap.mapData.collision[3 * 3 + 2 + 1] = 1
    /\ outMap.mapData.collision[1] = 0

\* the declared value of a coordinate or offset attribute, 0 when absent
Declared(attr) == IF attr = NoAttr THEN 0 ELSE attr[1]

RECURSIVE PlacedObjects(_, _, _)
\* the objects of a document in document order, each with the sums of the
\* offsetx and offsety of the containers around it
PlacedObjects(nodes, sumX, sumY) ==
    IF nodes = <<>> THEN <<>>
    ELSE LET node == nodes[1]
             sx == sumX + Declared(node.offsetx)
             sy == sumY + Declared(node.offsety)
         IN (IF node.tag = "objectgroup"
             THEN [i \in 1..Len(node.objects) |->
                      [object |-> node.objects[i], sumX |-> sx, sumY |-> sy]]
             ELSE IF node.tag = "group" THEN PlacedObjects(node.children, sx, sy)
             ELSE <<>>) \o PlacedObjects(Tail(nodes), sumX, sumY)

\* what the loader records an object as
KindOf(object) ==
    IF object.gid # NoAttr /\ object.gid[1].lo # 0 THEN "instance"
    ELSE IF object.type = "Door" THEN "door"
    ELSE IF object.type = "Spawn" THEN "spawn"
    ELSE "generic"

\* the positions the objects of one kind must be recorded with
ExpectedPositions(doc, kind) ==
    LET IsKind(p) == KindOf(p.object) = kind
        placed == SelectSeq(PlacedObjects(doc.nodes, 0, 0), IsKind)
    IN [i \in 1..Len(placed) |->
           <<Declared(placed[i].object.x) + placed[i].sumX,
             Declared(placed[i].object.y) + placed[i].sumY>>]

\* C7: after a successful load the position recorded for every door, spawn,
\* generic object and tile object is its declared x,y plus the sum of the
\* offsets of every container around it; the door at (0,0) in a group (5,5)
\* in a group (10,20) is recorded at (15,25)
C7_OffsetsCompose ==
    Loaded =>
        LET m == outMap.mapData
        IN /\ [i \in 1..Len(m.doors) |-> m.doors[i].posPx] = ExpectedPositions(tmxDoc, "door")
           /\ [i \in 1..Len(m.spawns) |-> m.spawns[i].posPx] = ExpectedPositions(tmxDoc, "spawn")
           /\ [i \in 1..Len(m.objects) |-> m.objects[i].positionPx]
                 = ExpectedPositions(tmxDoc, "generic")
           /\ [i \in 1..Len(m.objectInstances) |-> m.objectInstances[i].worldPos]
                 = ExpectedPositions(tmxDoc, "instance")
           /\ tmxDoc = NestedDoorDoc =>
                 Len(m.doors) = 1 /\ m.doors[1].posPx = <<15, 25>>

\* the nested door of the scenario is recorded at (15,25)
C7_Witness ==
    /\ Loaded
    /\ tmxDoc = NestedDoorDoc
    /\ outMap.mapData.doors[1].posPx = <<15, 25>>

\* C8: a LoadTmxMap call that fails after a successful one leaves the
\* caller's map exactly as the successful load built it
C8_FailedLoadKeepsMap ==
    [][(loadRet = "true" /\ loadRet' = "false") => outMap' = outMap]_vars

\* C9: whenever LoadTmxMap has returned false the LoadedMap holds nothing:
\* its dimensions are zero and its tileset, layer, collision and object lists
\* are empty
C9_FailureLeavesNothing ==
    LoadFailed =>
        LET m == outMap.mapData
        IN /\ m.width = 0 /\ m.height = 0 /\ m.tileW = 0 /\ m.tileH = 0
           /\ m.tilesets = <<>>
           /\ m.groundGids = <<>> /\ m.wallsGids = <<>> /\ m.overheadGids = <<>>
           /\ m.collision = <<>> /\ m.tileFlags = <<>>
           /\ m.objects = <<>> /\ m.doors = <<>> /\ m.spawns = <<>>
           /\ m.objectInstances = <<>>

-----------------------------------------------------------------------------
(* Properties of the depth sort, checked under SpecQueue. *)

\* the place of the command pushed as number p
PlaceOf(cmds, p) == CHOOSE i \in 1..Len(cmds) : cmds[i].pushed = p

\* the entry main built as number k: the instances in index order, the player last
Built(entry, instanceCount) == IF entry.isPlayer THEN instanceCount ELSE entry.index

\* C6: the depth sort is stable.  A step of SortByDepthStable keeps the
\* commands, leaves them ordered by depth key, keeps any two commands of equal
\* depth key in the order they had before the step, and sorting its output
\* again changes nothing; the entries of main's frame are ordered by feetY with
\* equal feetY in the order they were built
C6_StableDepthSort ==
    /\ [][SortByDepthStable =>
            /\ Len(mCmds') = Len(mCmds)
            /\ \A i \in 1..Len(mCmds) : \E j \in 1..Len(mCmds') : mCmds'[j] = mCmds[i]
            /\ \A i, j \in 1..Len(mCmds') : i < j => mCmds'[i].depthKey <= mCmds'[j].depthKey
            /\ \A a, b \in 1..Len(mCmds) :
                  (a < b /\ mCmds[a].depthKey = mCmds[b].depthKey)
                     => PlaceOf(mCmds', mCmds[a].pushed) < PlaceOf(mCmds', mCmds[b].pushed)
            /\ StableSort(mCmds', DepthKeyOf(mCmds')) = mCmds']_vars
    /\ [](\A i, j \in 1..Len(depthEntries) :
             i < j => \/ depthEntries[i].feetY < depthEntries[j].feetY
                      \/ /\ depthEntries[i].feetY = depthEntries[j].feetY
                         /\ Built(depthEntries[i], Len(depthEntries) - 1)
                               < Built(depthEntries[j], Len(depthEntries) - 1))

\* a sort has moved a command forward past others while two commands of equal
\* depth key, pushed in this order, sit next to each other
C6_Witness ==
    /\ queueOp = "sort"
    /\ \E i \in 1..(Len(mCmds) - 1) : mCmds[i].pushed > mCmds[i + 1].pushed
    /\ \E i \in 1..(Len(mCmds) - 1) :
          /\ mCmds[i].depthKey = mCmds[i + 1].depthKey
          /\ mCmds[i].pushed < mCmds[i + 1].pushed
    /\ \E i \in 1..(Len(depthEntries) - 1) :
          /\ depthEntries[i].feetY = depthEntries[i + 1].feetY
          /\ depthEntries[i + 1].isPlayer

\* how often the command (texture, depthKey) stands in a list of commands
TimesIn(cmds, texture, depthKey) ==
    Cardinality({i \in 1..Len(cmds) :
                    cmds[i].texture = texture /\ cmds[i].depthKey = depthKey})

\* C26: after any sequence of Clear and Push calls followed by
\* SortByDepthStable, Items() is a permutation of exactly the commands pushed
\* since the last Clear (none lost, none duplicated, none left over from before
\* the Clear) and the depth keys are non-decreasing along the sequence.
C26_SortedPermutation ==
    queueOp = "sort" =>
        /\ Len(mCmds) = Len(pushedCmds)
        /\ \A texture \in Textures, depthKey \in DepthKeys :
              TimesIn(mCmds, texture, depthKey) = TimesIn(pushedCmds, texture, depthKey)
        /\ \A i \in 1..Len(mCmds) : mCmds[i].pushed \in 1..Len(pushedCmds)
        /\ \A i, j \in 1..Len(mCmds) : i < j => mCmds[i].pushed # mCmds[j].pushed
        /\ \A i \in 1..(Len(mCmds) - 1) : mCmds[i].depthKey <= mCmds[i + 1].depthKey

\* a sort of three commands pushed with falling depth keys: the queue holds
\* the three, the one pushed last standing first
C26_Witness ==
    /\ queueOp = "sort"
    /\ Len(pushedCmds) = 3
    /\ pushedCmds[1].depthKey = 3 /\ pushedCmds[3].depthKey = 1
    /\ Len(mCmds) = 3 /\ mCmds[1].pushed = 3

-----------------------------------------------------------------------------
(* Properties of the parser, checked under SpecXml. *)

RECURSIVE Nesting(_, _, _)
\* reading the tags in order: the elements left open, the number of elements
\* outside every other element, and whether every closing tag met the
\* element opened last, with its name
Nesting(tags, open, roots) ==
    IF tags = <<>> THEN [matched |-> TRUE, open |-> open, roots |-> roots]
    ELSE LET t == tags[1]
             top == IF open = <<>> THEN roots + 1 ELSE roots
         IN IF t.kind = "open" THEN Nesting(Tail(tags), Append(open, t.name), top)
            ELSE IF t.kind = "self" THEN Nesting(Tail(tags), open, top)
            ELSE IF open # <<>> /\ open[Len(open)] = t.name
                 THEN Nesting(Tail(tags), SubSeq(open, 1, Len(open) - 1), roots)
                 ELSE [matched |-> FALSE, open |-> open, roots |-> roots]

NestingOf(pieces) == Nesting(WrittenTags(pieces), <<>>, 0)

\* C10: Parse returns success only for a document in which every closing tag
\* closes the element opened last and carries its name, no element is open at
\* the end, and there is exactly one root element; for a document with a
\* mismatched closing tag, an unclosed tag, no root or a second root it
\* returns XML_ERROR_PARSING
C10_SuccessOnlyWellNested ==
    LET nesting == NestingOf(xml)
        wellNested == nesting.matched /\ nesting.open = <<>> /\ nesting.roots = 1
    IN /\ parseRet = "XML_SUCCESS" => wellNested /\ events = WrittenTags(xml)
       /\ (parseRet # "running" /\ ~wellNested) => parseRet = "XML_ERROR_PARSING"

\* a document with nested elements, one with an attribute holding '>' and a
\* closing tag with blanks, has been accepted
C10_Witness ==
    /\ parseRet = "XML_SUCCESS"
    /\ xml = <<OpenA, OpenB, CloseB, CloseA>>

\* cells as Tiled writes them: the tile id and the orientation flags on it
FlipCell(text, id, flags) == [text |-> text, id |-> id, flags |-> flags]
FlipCells ==
    {FlipCell("0", 0, {}), FlipCell("4", 4, {}), FlipCell("6", 6, {}),
     FlipCell("536870912", 0, {"diagonal"}),
     FlipCell("1610612742", 6, {"vertical", "diagonal"}),
     FlipCell("2147483654", 6, {"horizontal"}),
     FlipCell("3758096384", 0, {"horizontal", "vertical", "diagonal"})}

\* the layer of the role as the loaded map holds it
StoredLayer(mapData, role) ==
    CASE role = "ground" -> mapData.groundGids
      [] role = "walls" -> mapData.wallsGids
      [] role = "overhead" -> mapData.overheadGids

\* the runtime tilesets main builds from the tileset definitions of a loaded
\* map when every texture loads
RuntimesOf(defs) == [k \in 1..Len(defs) |-> MakeRuntime(defs[k], k - 1, {})]

\* the aggregation applies property flags for the global id g
AppliesFlags(defs, g) == AccumulateTileFlags(NoFlags, g, defs) # NoFlags

\* the loader and the resolver pick the same tileset for g, or both none
SameOwner(defs, g) ==
    LET index == FindTilesetIndex(RuntimesOf(defs), g)
    IN IF index = -1 THEN FindTilesetForGid(defs, g) = NoTileset
       ELSE FindTilesetForGid(defs, g) = defs[index + 1]

\* the global ids the role layers of the loaded map hold
RoleGids(mapData) ==
    UNION {{StoredLayer(mapData, role)[i] : i \in DOMAIN StoredLayer(mapData, role)} :
              role \in {"ground", "walls", "overhead"}}

\* C28 (first half): for every global id the loader's FindTilesetForGid and
\* the resolver's FindTilesetIndex pick the same tileset
C28_SameTileset ==
    Loaded => \A g \in ResolveGids \cup RoleGids(outMap.mapData) :
                  SameOwner(outMap.mapData.tilesets, g)

\* C28: the loader and the resolver attribute every global id to the same
\* tileset, and the aggregation applies a tile's property flags to a cell
\* only when Resolve accepts the global id of that cell
C28_FlagsOnlyWhereResolved ==
    Loaded =>
        LET defs == outMap.mapData.tilesets
        IN /\ \A g \in ResolveGids \cup RoleGids(outMap.mapData) : SameOwner(defs, g)
           /\ \A g \in RoleGids(outMap.mapData) :
                 AppliesFlags(defs, g) =>
                     \A t \in ResolveTimes :
                         Resolve(RuntimesOf(defs), g, t, EmptyResolvedTile).ret

\* C14: a map whose layers hold cells with orientation flags is loaded, and
\* for a cell written as id g with any of the three flags the role layer
\* holds g with the three high bits clear, the collision grid 1 when g is
\* not 0 (and, when g is 0, 1 only under a blocking tile)
C14_FlipBitsStripped ==
    tmxDoc \in LayerDocs =>
        /\ Loaded
        /\ LET m == outMap.mapData
               n == m.width * m.height
               Last(ls) == ls[Len(ls)]
           IN /\ \A role \in {"ground", "walls", "overhead"}, i \in 1..n, c \in FlipCells :
                    LET ls == RoleLayers(tmxDoc, role)
                    IN (ls # <<>> /\ WrittenCells(Last(ls).data.csv)[i] = c.text)
                       => StoredLayer(m, role)[i] = U32(0, c.id)
              /\ \A i \in 1..n, c \in FlipCells :
                    LET ls == RoleLayers(tmxDoc, "collision")
                    IN (ls # <<>> /\ WrittenCells(Last(ls).data.csv)[i] = c.text)
                       => (m.collision[i] = 1 <=>
                             \/ c.id # 0
                             \/ \E role \in {"ground", "walls", "overhead"} :
                                   BlockingTile(m.tilesets, CellGid(tmxDoc, role, i)))

\* a csv layer whose cell count is not the map's
CountMismatch(node, cellCount) ==
    /\ node.tag = "layer"
    /\ node.data.present
    /\ node.data.encoding = "csv"
    /\ Len(WrittenCells(node.data.csv)) # cellCount

RECURSIVE WithoutMismatch(_, _)
\* the elements of a document with those layers taken out
WithoutMismatch(nodes, cellCount) ==
    IF nodes = <<>> THEN <<>>
    ELSE LET node == nodes[1]
             rest == WithoutMismatch(Tail(nodes), cellCount)
         IN IF CountMismatch(node, cellCount) THEN rest
            ELSE IF node.tag = "group"
            THEN <<[node EXCEPT !.children = WithoutMismatch(@, cellCount)]>> \o rest
            ELSE <<node>> \o rest

\* C15: a map with a csv layer of the wrong cell count is loaded, and the
\* loaded map is the one the document without that layer gives; the role of
\* that layer stays empty when no other layer fills it
C15_MismatchedLayerAbsent ==
    LET cellCount == tmxDoc.width[1] * tmxDoc.height[1]
        without == [tmxDoc EXCEPT !.nodes = WithoutMismatch(@, cellCount)]
    IN (tmxDoc \in LayerDocs /\ without # tmxDoc) =>
          /\ Loaded
          /\ outMap = LoadTmxMap(without).outMap
          /\ \A role \in {"ground", "walls", "overhead"} :
                RoleLayers(tmxDoc, role) = <<>> => StoredLayer(outMap.mapData, role) = <<>>

\* C17: after a successful load every object with a nonzero global id has its
\* instance, in document order, at the declared x plus the offsets around it
\* and at the declared y plus the offsets minus the instance's pixel height
C17_TopEdgeAnchor ==
    Loaded =>
        LET m == outMap.mapData
            IsInstance(p) == KindOf(p.object) = "instance"
            placed == SelectSeq(PlacedObjects(tmxDoc.nodes, 0, 0), IsInstance)
        IN /\ Len(m.objectInstances) = Len(placed)
           /\ \A i \in 1..Len(placed) :
                 m.objectInstances[i].worldPos =
                    <<Declared(placed[i].object.x) + placed[i].sumX,
                      Declared(placed[i].object.y) + placed[i].sumY
                          - m.objectInstances[i].size[2]>>

\* C18: after a successful load the door records are, in document order, the
\* objects of type Door that declare both targetMap and targetSpawn, each
\* with the two texts of its properties
C18_DoorsDeclareTargets ==
    Loaded =>
        LET m == outMap.mapData
            IsDoor(p) == /\ KindOf(p.object) = "door"
                         /\ {"targetMap", "targetSpawn"} \subseteq DOMAIN p.object.props
            declared == SelectSeq(PlacedObjects(tmxDoc.nodes, 0, 0), IsDoor)
        IN [i \in 1..Len(m.doors) |-> <<m.doors[i].targetMap, m.doors[i].targetSpawn>>]
              = [i \in 1..Len(declared) |->
                    <<declared[i].object.props["targetMap"],
                      declared[i].object.props["targetSpawn"]>>]

\* the places of the calls of a pass, or of a kind, in the frame
PlacesOfPass(pass) == {i \in 1..Len(drawn) : drawn[i].pass = pass}
PlacesOfKind(kind) == {i \in 1..Len(drawn) : drawn[i].kind = kind}

\* C19: in a frame every ground tile is drawn before every drawable of the
\* depth-sorted pass (and before every wall tile), and every overhead tile
\* after all of them
C19_GroundFirstOverheadLast ==
    /\ \A g \in PlacesOfPass("ground"), d \in PlacesOfPass("depth") \cup PlacesOfPass("walls") :
          g < d
    /\ \A o \in PlacesOfPass("overhead"), d \in PlacesOfPass("depth") \cup PlacesOfPass("walls") :
          d < o
    /\ \A g \in PlacesOfPass("ground"), o \in PlacesOfPass("overhead") : g < o

\* a frame with ground tiles, an overhead tile, a tile object and the player
C19_Witness ==
    /\ Cardinality(PlacesOfPass("ground")) = MapW * MapH
    /\ PlacesOfPass("overhead") # {}
    /\ PlacesOfKind("instance") # {}
    /\ PlacesOfKind("player") # {}
    /\ PlacesOfPass("walls") # {}

\* C20: in a frame the wall tiles, the tile objects and the player are drawn
\* in the order of one stable sort by depth key, so a wall tile is drawn
\* after the player exactly when its feet line is below the player's
C20_WallsInDepthOrder ==
    \A w \in PlacesOfPass("walls"), p \in PlacesOfKind("player") :
        p < w <=> drawn[p].feetY < drawn[w].feetY

\* a required element is missing from the document: its root element is not
\* <map>, the map holds no <tileset>, the file a tileset names does not load
\* or its root element is not <tileset>, a tileset's <image> has no source
RequiredMissing(doc) ==
    \/ <<"map">> # doc.rootName
    \/ doc.tilesets = <<>>
    \/ \E i \in 1..Len(doc.tilesets) :
          LET el == doc.tilesets[i]
          IN \/ el.source # Inline /\ TsxFile(el.source).load # "XML_SUCCESS"
             \/ el.source # Inline /\ <<"tileset">> # TsxFile(el.source).rootName
             \/ el.image.present /\ ~el.image.source

\* C16: LoadTmxMap returns false for every document from which a required
\* element is missing
C16_MissingElementAborts ==
    (loadRet # "none" /\ RequiredMissing(tmxDoc)) => LoadFailed

\* the four structural errors of a document
StructuralDefects ==
    {"mismatched closing tag", "unclosed tag", "no root element", "multiple root elements"}

\* everything the callers have been handed so far
Reports == reported \cup (IF parseRet = "running" THEN {} ELSE {Report})

\* C11: two documents with different structural errors are reported to the
\* caller as different error conditions, each with its own message
C11_DistinctErrorConditions ==
    \A r1, r2 \in Reports :
        (r1.defect \in StructuralDefects /\ r2.defect \in StructuralDefects
         /\ r1.defect # r2.defect)
        => r1.code # r2.code /\ r1.message # r2.message

\* C11, the messages alone: each structural error is reported with the
\* message that names it, so the messages of two of them differ
C11_MessagesNameTheDefect ==
    \A r \in Reports :
        r.defect \in StructuralDefects
        => /\ r.code = "XML_ERROR_PARSING"
           /\ r.message = CASE r.defect = "mismatched closing tag" ->
                                   "parse error: mismatched closing tag"
                             [] r.defect = "unclosed tag" -> "parse error: unclosed tag"
                             [] r.defect = "no root element" -> "parse error: no root element"
                             [] OTHER -> "parse error: multiple root elements"

\* documents with each of the four structural errors have been reported
C11_Witness == StructuralDefects \subseteq {r.defect : r \in Reports}

\* the names a caller asks FirstChildElement for
QueryNames == {NoName, NameA, NameB}

\* C12: once Parse has reported a structural error the document has no root
\* and FirstChildElement returns no element, whatever the name
C12_NoTreeAfterError ==
    (parseRet = "XML_ERROR_PARSING" /\ DefectOf(xml) \in StructuralDefects)
    => /\ root_ = NullNode
       /\ \A name \in QueryNames :
             FirstChildElement(root_, rootChildren, name) = NullNode

\* the text is an integer: digits, after a sign or not
IsIntegerText(chars) ==
    LET body == IF chars # <<>> /\ chars[1] \in {"+", "-"} THEN Tail(chars) ELSE chars
    IN body # <<>> /\ \A i \in 1..Len(body) : DigitValue(body[i]) >= 0

Malformed(attr) == attr # NoAttr /\ ~IsNumeral(attr) /\ ~IsIntegerText(attr[2])

\* C13: IntAttribute returns the default it was handed when the element does
\* not carry the attribute and when the attribute's text is not an integer
C13_DefaultOnMalformed ==
    (attrCall.called /\ (attrCall.attr = NoAttr \/ Malformed(attrCall.attr)))
    => attrCall.ret = attrCall.defaultValue

\* a document that ends inside a comment, a processing instruction, an
\* attribute value or a tag
CutOffDocs ==
    {<<OpenA, Piece(<<"<", "!", "-", "-", "<", "/", "a", ">">>, NoTag)>>,
     <<OpenA, Piece(<<"<", "?", "<", "/", "a", ">">>, NoTag)>>,
     <<Piece(<<"<", "a", " ", "k", "=", "'", "t">>, OpenTag(NameA))>>,
     <<Piece(<<"<", "a">>, OpenTag(NameA))>>}

\* every turn of the attribute loop, from whatever position of the document
\* it starts, returns an error or moves the read position forward
AttributeTurnsAdvance ==
    \A i \in 0..(Len(Chars(xml)) - 1) :
        InAttributeLoop(Chars(xml), i) =>
            \/ AttributeTurn(Chars(xml), i).error # ""
            \/ AttributeTurn(Chars(xml), i).i > i

\* a step inside one call of Parse that does not return moves the read
\* position forward
MainLoopAdvances ==
    (parseRet = "running" /\ parseRet' = "running" /\ xml' = xml) => xi' > xi

\* C30: Parse returns on every input, with success or an error: every turn
\* of its main loop and of its attribute loop moves the read position
\* forward or returns, and a call that has started comes to its return
C30_ParseTerminates ==
    /\ [](/\ AttributeTurnsAdvance
          /\ xi <= Len(Chars(xml))
          /\ parseSteps <= Len(Chars(xml)) + 1)
    /\ [][MainLoopAdvances]_vars
    /\ (parseRet = "running") ~> (parseRet \in {"XML_SUCCESS", "XML_ERROR_PARSING"})

\* Parse has returned an error at the end of a document that is cut off
\* inside a comment, an instruction, an attribute value or a tag
C30_Witness ==
    /\ xml \in CutOffDocs
    /\ parseRet = "XML_ERROR_PARSING"
    /\ xi = Len(Chars(xml))

-----------------------------------------------------------------------------
(* Properties of the player controller, checked under SpecPlayer. *)

\* C29: a player put on a position whose four hitbox corners lie in unblocked
\* cells of the map has its four hitbox corners in unblocked cells of the map
\* after every sequence of Update calls
C29_PlayerStaysFree ==
    ~CollidesAt(mPlayer.gridPos, MapW, MapH, collisionGrid)

====
